---- MODULE Spec2Model ----
(***************************************************************************)
(* Model of the Pulumi infrastructure helpers of this repository:          *)
(*   - LambdaRestApi (infrastructure/common/apigateway.py) and its caller  *)
(*     create_lambda_rest_api (infrastructure/app_layer/api_gateway.py);   *)
(*   - the IAM policy statement synthesizer (src/app_layer/policy_config). *)
(* Strings are TLA+ strings; Python lists are sequences; Python dicts are  *)
(* functions; an Optional argument is a sequence of length 0 (None) or 1.  *)
(***************************************************************************)
EXTENDS Integers, Sequences, FiniteSets, TLC

VARIABLES
    apis,          \* the LambdaRestApi objects constructed so far
    rest_apis,     \* declared aws.apigateway.RestApi resources
    permissions,   \* declared aws.lambda_.Permission resources
    resources,     \* declared aws.apigateway.Resource resources
    methods,       \* declared aws.apigateway.Method resources
    integrations,  \* declared aws.apigateway.Integration resources
    deployments,   \* declared aws.apigateway.Deployment resources
    stages,        \* declared aws.apigateway.Stage resources
    config,        \* the PulumiConfig singleton _config
    passed,        \* per LambdaRestApi object: the methods its routes were added with
    last,          \* the last call made, what held before it, what it returned or raised
    synth,         \* the policy statement synthesizer's calls so far, with their outcomes
    heap,          \* the Python list objects holding IAM actions: address -> contents
    declared,      \* the resources declared by the IAM, storage and stack functions
    calls,         \* the calls made to those functions so far, with their outcomes
    exports,       \* the stack's exports, in the order they were made
    validations,   \* the policy pack's validations so far, with what each reported
    accesses,      \* the calls of PulumiConfig's accessors so far, with their outcomes
    _test_mocks,   \* the PulumiTestMocks object _test_mocks
    mock_calls,    \* the calls made to _test_mocks so far, with what they returned
    routes         \* the routes registered so far: API object, path and HTTP method

ApiVars == <<apis, rest_apis, permissions, resources, methods, integrations,
             deployments, stages, config, passed, last>>
PolicyVars == <<synth, heap>>
StackVars == <<declared, calls, exports>>
OtherVars == <<validations, accesses, _test_mocks, mock_calls, routes>>

vars == <<ApiVars, PolicyVars, StackVars, OtherVars>>

-----------------------------------------------------------------------------
(* Python values *)

None == <<>>
Some(x) == <<x>>
IsNone(o) == o = <<>>
Value(o) == o[1]

EmptyDict == [k \in {} |-> ""]

\* {**d, k: v}
DictSet(d, k, v) == [j \in DOMAIN d \cup {k} |-> IF j = k THEN v ELSE d[j]]

\* the cased characters: upper-case to lower-case and back
LowerOf ==
    [ A |-> "a", B |-> "b", C |-> "c", D |-> "d", E |-> "e", F |-> "f", G |-> "g",
      H |-> "h", I |-> "i", J |-> "j", K |-> "k", L |-> "l", M |-> "m", N |-> "n",
      O |-> "o", P |-> "p", Q |-> "q", R |-> "r", S |-> "s", T |-> "t", U |-> "u",
      V |-> "v", W |-> "w", X |-> "x", Y |-> "y", Z |-> "z" ]
UpperOf ==
    [ a |-> "A", b |-> "B", c |-> "C", d |-> "D", e |-> "E", f |-> "F", g |-> "G",
      h |-> "H", i |-> "I", j |-> "J", k |-> "K", l |-> "L", m |-> "M", n |-> "N",
      o |-> "O", p |-> "P", q |-> "Q", r |-> "R", s |-> "S", t |-> "T", u |-> "U",
      v |-> "V", w |-> "W", x |-> "X", y |-> "Y", z |-> "Z" ]

IsCased(c) == c \in DOMAIN LowerOf \/ c \in DOMAIN UpperOf
LowerChar(c) == IF c \in DOMAIN LowerOf THEN LowerOf[c] ELSE c
UpperChar(c) == IF c \in DOMAIN UpperOf THEN UpperOf[c] ELSE c

\* str.lower()
RECURSIVE lower(_)
lower(s) == IF s = "" THEN "" ELSE LowerChar(Head(s)) \o lower(Tail(s))

\* str.title(): a cased character is upper-cased when it follows an uncased
\* one (or starts the string) and lower-cased otherwise
RECURSIVE TitleFrom(_, _)
TitleFrom(s, prevCased) ==
    IF s = "" THEN ""
    ELSE LET c == Head(s)
         IN (IF prevCased THEN LowerChar(c) ELSE UpperChar(c))
            \o TitleFrom(Tail(s), IsCased(c))
title(s) == TitleFrom(s, FALSE)

\* str.replace(old, new) for a one-character old
RECURSIVE replace(_, _, _)
replace(s, old, new) ==
    IF s = "" THEN ""
    ELSE (IF Head(s) = old THEN new ELSE Head(s)) \o replace(Tail(s), old, new)

\* needle in s
Contains(s, needle) ==
    \E i \in 1..(Len(s) - Len(needle) + 1) : SubSeq(s, i, i + Len(needle) - 1) = needle

-----------------------------------------------------------------------------
(* Bounds and input sets *)

\* the number of calls a program makes
MaxOps == 3

\* what pulumi.get_stack(), aws.get_caller_identity() and aws.get_region() answer
Envs == [stack : {"dev"}, account_id : {"123456789012"}, region : {"us-west-2", "eu-west-2"}]

\* the invocation reference the provider assigns to a Lambda function
InvokeArn(function_name) ==
    "arn:aws:apigateway:us-west-2:lambda:path/2015-03-31/functions/"
    \o "arn:aws:lambda:us-west-2:123456789012:function:" \o function_name \o "/invocations"

LambdaFunctions ==
    { [name |-> "api-lambda", invoke_arn |-> InvokeArn("api-lambda")],
      [name |-> "web-lambda", invoke_arn |-> InvokeArn("web-lambda")] }

LambdaOf(n) == CHOOSE f \in LambdaFunctions : f.name = n

\* the argument bundles LambdaRestApi(...) is constructed with
CtorArgs ==
    { [name |-> "api", lambda_function |-> LambdaOf("api-lambda"), stage_name |-> "dev",
       description |-> Some("Simple REST API with Lambda backend"),
       tags |-> Some([Name |-> "Simple API", ManagedBy |-> "Pulumi"])],
      [name |-> "web", lambda_function |-> LambdaOf("web-lambda"), stage_name |-> "prod",
       description |-> None, tags |-> None] }

\* the argument bundle deploy_application_stack calls create_lambda_rest_api with
CreateArgs ==
    { [name |-> "api", lambda_function |-> LambdaOf("api-lambda"), stage_name |-> "dev",
       description |-> Some("Simple REST API with Lambda backend"),
       tags |-> Some([Name |-> "Simple API", Environment |-> "dev", ManagedBy |-> "Pulumi"])],
      [name |-> "web", lambda_function |-> LambdaOf("web-lambda"), stage_name |-> "prod",
       description |-> Some(""), tags |-> Some(EmptyDict)] }

\* the methods arguments add_root_route / add_proxy_route are called with
MethodArgs == { None, Some(<<>>), Some(<<"ANY">>), Some(<<"GET", "POST">>) }

Paths == {"{proxy+}", "items"}

Authorizations == {"NONE"}

-----------------------------------------------------------------------------
(* Provider-assigned attributes of declared resources (pulumi Outputs).     *)
(* They are opaque to the program; the values are those of the test         *)
(* backend.                                                                 *)

ResourceId(name) == name \o "-id"
RootResourceId(name) == name \o "-root-id"
ExecutionArn(name) == "arn:aws:execute-api:us-west-2:123456789012:" \o name \o "-api-id"

-----------------------------------------------------------------------------
(* PulumiConfig, the lazily initialised singleton *)

NewPulumiConfig == [_stack_name |-> None, _current |-> None, _region |-> None]

_ensure_initialized(c, e) ==
    IF IsNone(c._stack_name)
    THEN [_stack_name |-> Some(e.stack),
          _current |-> Some([account_id |-> e.account_id]),
          _region |-> Some([name |-> e.region])]
    ELSE c

\* the value the property returns; its caller stores _ensure_initialized(c, e)
region_name(c, e) == Value(_ensure_initialized(c, e)._region).name

-----------------------------------------------------------------------------
(* The program state as one value, so that a function calling several       *)
(* methods is the composition of their effects.  ret is what the last       *)
(* method returned.                                                         *)

World ==
    [apis |-> apis, rest_apis |-> rest_apis, permissions |-> permissions,
     resources |-> resources, methods |-> methods, integrations |-> integrations,
     deployments |-> deployments, stages |-> stages, config |-> config,
     ret |-> None]

\* NewPermission granting the invocation to every principal
NewPermissionAnyPrincipal(name, lambda_function, rest_api_name) ==
    [name |-> name \o "-api-lambda-permission",
     action |-> "lambda:InvokeFunction",
     function |-> lambda_function.name,
     principal |-> "*",
     source_arn |-> ExecutionArn(rest_api_name) \o "/*/*"]

NewPermission(name, lambda_function, rest_api_name) ==
    [name |-> name \o "-api-lambda-permission",
     action |-> "lambda:InvokeFunction",
     function |-> lambda_function.name,
     principal |-> "apigateway.amazonaws.com",
     source_arn |-> ExecutionArn(rest_api_name) \o "/*/*"]

\* LambdaRestApi.__init__; a is the argument bundle. The new object is the
\* last element of apis.
LambdaRestApi_init(w, a) ==
    LET tags == IF IsNone(a.tags) \/ Value(a.tags) = EmptyDict
                THEN EmptyDict ELSE Value(a.tags)
        rest_api == [name |-> a.name \o "-api",
                     description |-> IF IsNone(a.description) \/ Value(a.description) = ""
                                     THEN a.name \o " REST API"
                                     ELSE Value(a.description),
                     tags |-> tags]
        self == [name |-> a.name,
                 lambda_function |-> a.lambda_function,
                 stage_name |-> a.stage_name,
                 tags |-> tags,
                 rest_api |-> Len(w.rest_apis) + 1,
                 _integrations |-> <<>>,
                 lambda_permission |-> Len(w.permissions) + 1]
    IN [w EXCEPT !.apis = Append(@, self),
                 !.rest_apis = Append(@, rest_api),
                 !.permissions = Append(@, NewPermission(a.name, a.lambda_function, rest_api.name)),
                 !.ret = None]

\* self.rest_api.id and self.rest_api.root_resource_id
RestApiId(w, self) == ResourceId(w.rest_apis[w.apis[self].rest_api].name)
RestApiRootResourceId(w, self) == RootResourceId(w.rest_apis[w.apis[self].rest_api].name)

\* NewIntegration calling the function with the route's own HTTP method
NewIntegrationWithRouteMethod(w, self, method_name, resource_id, method) ==
    [name |-> method_name \o "-integration",
     rest_api |-> RestApiId(w, self),
     resource_id |-> resource_id,
     http_method |-> method.http_method,
     integration_http_method |-> method.http_method,
     type |-> "AWS_PROXY",
     uri |-> w.apis[self].lambda_function.invoke_arn]

NewIntegration(w, self, method_name, resource_id, method) ==
    [name |-> method_name \o "-integration",
     rest_api |-> RestApiId(w, self),
     resource_id |-> resource_id,
     http_method |-> method.http_method,
     integration_http_method |-> "POST",
     type |-> "AWS_PROXY",
     uri |-> w.apis[self].lambda_function.invoke_arn]

\* self._integrations.append(integration), integration being the one just declared
TrackIntegration(w, self) ==
    [w EXCEPT !.apis = [@ EXCEPT ![self]._integrations = Append(@, Len(w.integrations))]]

_add_method_with_lambda_integration(w, self, resource_id, http_method, authorization, resource_name) ==
    LET method_name == w.apis[self].name \o "-" \o resource_name \o "-"
                       \o lower(http_method) \o "-method"
        method == [name |-> method_name,
                   rest_api |-> RestApiId(w, self),
                   resource_id |-> resource_id,
                   http_method |-> http_method,
                   authorization |-> authorization]
        w1 == [w EXCEPT !.methods = Append(@, method),
                        !.integrations =
                            Append(@, NewIntegration(w, self, method_name, resource_id, method))]
    IN TrackIntegration(w1, self)

\* ForEachMethod leaving the loop after the first method
ForFirstMethodOnly(w, self, ms, resource_id, authorization, resource_name) ==
    IF ms = <<>> THEN w
    ELSE _add_method_with_lambda_integration(w, self, resource_id, Head(ms),
                                             authorization, resource_name)

\* for method in methods: self._add_method_with_lambda_integration(...)
RECURSIVE ForEachMethod(_, _, _, _, _, _)
ForEachMethod(w, self, ms, resource_id, authorization, resource_name) ==
    IF ms = <<>> THEN w
    ELSE ForEachMethod(
             _add_method_with_lambda_integration(w, self, resource_id, Head(ms),
                                                 authorization, resource_name),
             self, Tail(ms), resource_id, authorization, resource_name)

\* if methods is None: methods = ["ANY"]
DefaultMethods(ms) == IF IsNone(ms) THEN <<"ANY">> ELSE Value(ms)

ResourceName(name, path) ==
    name \o "-resource-" \o replace(replace(replace(path, "{", ""), "}", ""), "+", "plus")

add_proxy_route(w, self, path, ms, authorization) ==
    LET resource == [name |-> ResourceName(w.apis[self].name, path),
                     rest_api |-> RestApiId(w, self),
                     parent_id |-> RestApiRootResourceId(w, self),
                     path_part |-> path]
        w1 == [w EXCEPT !.resources = Append(@, resource)]
        w2 == ForEachMethod(w1, self, DefaultMethods(ms), ResourceId(resource.name),
                            authorization, path)
    IN [w2 EXCEPT !.ret = None]

add_root_route(w, self, ms, authorization) ==
    LET w1 == ForEachMethod(w, self, DefaultMethods(ms), RestApiRootResourceId(w, self),
                            authorization, "root")
    IN [w1 EXCEPT !.ret = None]

\* pulumi.ResourceOptions(depends_on=self._integrations): the option holds the
\* list object of LambdaRestApi object self itself, not a copy of it
DependsOnOption(self) == [list_of |-> self]

\* deploy returns the Stage it declares: ret is its index in stages
deploy(w, self) ==
    LET api == w.apis[self]
        deployment == [name |-> api.name \o "-deployment",
                       rest_api |-> RestApiId(w, self),
                       depends_on |-> DependsOnOption(self)]
        stage == [name |-> api.name \o "-stage",
                  rest_api |-> RestApiId(w, self),
                  deployment |-> ResourceId(deployment.name),
                  stage_name |-> api.stage_name,
                  tags |-> DictSet(api.tags, "Name", title(api.stage_name) \o " Stage")]
        w1 == [w EXCEPT !.deployments = Append(@, deployment),
                        !.stages = Append(@, stage)]
    IN [w1 EXCEPT !.ret = Some(Len(w1.stages))]

\* stage is the index in stages of the Stage object passed
get_endpoint_url(w, e, self, stage) ==
    LET url == "https://" \o RestApiId(w, self) \o ".execute-api." \o region_name(w.config, e)
               \o ".amazonaws.com/" \o w.stages[stage].stage_name \o "/"
        w1 == [w EXCEPT !.config = _ensure_initialized(@, e)]
    IN [w1 EXCEPT !.ret = Some(url)]

\* create_lambda_rest_api adding the proxy route whatever enable_proxy_route says
create_lambda_rest_api_always_proxy(w, e, a, enable_proxy_route, enable_root_route) ==
    LET w0 == LambdaRestApi_init(w, a)
        api == Len(w0.apis)
        w1 == IF enable_root_route THEN add_root_route(w0, api, Some(<<"ANY">>), "NONE") ELSE w0
        w2 == add_proxy_route(w1, api, "{proxy+}", Some(<<"ANY">>), "NONE")
        w3 == deploy(w2, api)
        stage == Value(w3.ret)
        w4 == get_endpoint_url(w3, e, api, stage)
    IN [w4 EXCEPT !.ret = Some([api |-> api, stage |-> stage, endpoint_url |-> Value(w4.ret)])]

\* returns (api, stage, endpoint_url): ret is that triple, api and stage as
\* indices in apis and stages
create_lambda_rest_api(w, e, a, enable_proxy_route, enable_root_route) ==
    LET w0 == LambdaRestApi_init(w, a)
        api == Len(w0.apis)
        w1 == IF enable_root_route THEN add_root_route(w0, api, Some(<<"ANY">>), "NONE") ELSE w0
        w2 == IF enable_proxy_route
              THEN add_proxy_route(w1, api, "{proxy+}", Some(<<"ANY">>), "NONE")
              ELSE w1
        w3 == deploy(w2, api)
        stage == Value(w3.ret)
        w4 == get_endpoint_url(w3, e, api, stage)
    IN [w4 EXCEPT !.ret = Some([api |-> api, stage |-> stage, endpoint_url |-> Value(w4.ret)])]

-----------------------------------------------------------------------------
(* The composer's state machine: one action per call a program can make *)

\* the Deployment objects that deploy() of LambdaRestApi object self declared
DeploymentsOf(self) == {k \in DOMAIN deployments : deployments[k].depends_on.list_of = self}

\* what held when a call was made on LambdaRestApi object self (0: on none)
Before(self) ==
    [deployed |-> DeploymentsOf(self) # {},
     tracked |-> IF self \in DOMAIN apis THEN Len(apis[self]._integrations) ELSE 0,
     n_permissions |-> Len(permissions),
     n_resources |-> Len(resources),
     n_methods |-> Len(methods),
     n_integrations |-> Len(integrations),
     n_deployments |-> Len(deployments),
     n_stages |-> Len(stages)]

NoCall ==
    [n |-> 0, op |-> "", self |-> 0, path |-> "", methods |-> None, stage |-> 0,
     enable_proxy_route |-> FALSE, enable_root_route |-> FALSE,
     before |-> Before(0), ret |-> None, raised |-> None]

SetWorld(w) ==
    /\ apis' = w.apis
    /\ rest_apis' = w.rest_apis
    /\ permissions' = w.permissions
    /\ resources' = w.resources
    /\ methods' = w.methods
    /\ integrations' = w.integrations
    /\ deployments' = w.deployments
    /\ stages' = w.stages
    /\ config' = w.config

\* none of the methods raises: a call's outcome is what it returns
Returned(w, call) ==
    /\ SetWorld(w)
    /\ last' = [call EXCEPT !.n = last.n + 1,
                            !.before = IF call.op \in {"__init__", "create_lambda_rest_api"}
                                       THEN Before(0) ELSE Before(call.self),
                            !.ret = w.ret, !.raised = None]
    /\ UNCHANGED <<PolicyVars, StackVars, OtherVars>>

\* the methods list a route is added with: the default when the argument is omitted
MethodsPassed(ms) == IF IsNone(ms) THEN <<"ANY">> ELSE Value(ms)

InitApi ==
    /\ apis = <<>>
    /\ rest_apis = <<>>
    /\ permissions = <<>>
    /\ resources = <<>>
    /\ methods = <<>>
    /\ integrations = <<>>
    /\ deployments = <<>>
    /\ stages = <<>>
    /\ config = NewPulumiConfig
    /\ passed = <<>>
    /\ last = NoCall

Construct ==
    /\ last.n < MaxOps
    /\ \E a \in CtorArgs :
          LET w == LambdaRestApi_init(World, a)
          IN /\ Returned(w, [NoCall EXCEPT !.op = "__init__", !.self = Len(w.apis)])
             /\ passed' = Append(passed, <<>>)

AddRootRoute ==
    /\ last.n < MaxOps
    /\ \E self \in DOMAIN apis, ms \in MethodArgs, authorization \in Authorizations :
          /\ Returned(add_root_route(World, self, ms, authorization),
                      [NoCall EXCEPT !.op = "add_root_route", !.self = self, !.path = "/",
                                     !.methods = ms])
          /\ passed' = [passed EXCEPT ![self] = @ \o MethodsPassed(ms)]

AddProxyRoute ==
    /\ last.n < MaxOps
    /\ \E self \in DOMAIN apis, path \in Paths, ms \in MethodArgs,
          authorization \in Authorizations :
          /\ Returned(add_proxy_route(World, self, path, ms, authorization),
                      [NoCall EXCEPT !.op = "add_proxy_route", !.self = self, !.path = path,
                                     !.methods = ms])
          /\ passed' = [passed EXCEPT ![self] = @ \o MethodsPassed(ms)]

Deploy ==
    /\ last.n < MaxOps
    /\ \E self \in DOMAIN apis :
          /\ Returned(deploy(World, self), [NoCall EXCEPT !.op = "deploy", !.self = self])
          /\ UNCHANGED passed

\* the stage argument is a Stage object: any that exists
GetEndpointUrl ==
    /\ last.n < MaxOps
    /\ \E self \in DOMAIN apis, stage \in DOMAIN stages, e \in Envs :
          /\ Returned(get_endpoint_url(World, e, self, stage),
                      [NoCall EXCEPT !.op = "get_endpoint_url", !.self = self,
                                     !.stage = stage])
          /\ UNCHANGED passed

CreateLambdaRestApi ==
    /\ last.n < MaxOps
    /\ \E a \in CreateArgs, enable_proxy_route \in BOOLEAN, enable_root_route \in BOOLEAN,
          e \in Envs :
          LET w == create_lambda_rest_api(World, e, a, enable_proxy_route, enable_root_route)
          IN /\ Returned(w, [NoCall EXCEPT !.op = "create_lambda_rest_api",
                                           !.self = Value(w.ret).api,
                                           !.enable_proxy_route = enable_proxy_route,
                                           !.enable_root_route = enable_root_route])
             /\ passed' = Append(passed,
                                 (IF enable_root_route THEN <<"ANY">> ELSE <<>>)
                                 \o (IF enable_proxy_route THEN <<"ANY">> ELSE <<>>))

\* a call's outcome when the routes it registers are recorded
ReturnedRoutes(w, call, registered) ==
    /\ SetWorld(w)
    /\ last' = [call EXCEPT !.n = last.n + 1, !.before = Before(call.self),
                            !.ret = w.ret, !.raised = None]
    /\ routes' = routes \o registered
    /\ UNCHANGED <<PolicyVars, StackVars, validations, accesses, _test_mocks, mock_calls>>

\* the paths and the methods lists a program's routes are added with
RoutePaths == {"{proxy+}", "proxyplus", "root", "items"}
RouteMethodArgs == { None, Some(<<"GET">>), Some(<<"get">>), Some(<<"GET", "POST">>) }

\* the routes a call registers: one for each method of its list
RoutesOf(self, route, path, ms) ==
    [i \in DOMAIN DefaultMethods(ms) |->
        [self |-> self, route |-> route, path |-> path, method |-> DefaultMethods(ms)[i]]]

\* a program adds methods to the root of an API
RouteToRoot ==
    /\ last.n < MaxOps
    /\ \E self \in DOMAIN apis, ms \in RouteMethodArgs, authorization \in Authorizations :
          /\ ReturnedRoutes(add_root_route(World, self, ms, authorization),
                            [NoCall EXCEPT !.op = "add_root_route", !.self = self,
                                           !.path = "/", !.methods = ms],
                            RoutesOf(self, "root", "/", ms))
          /\ passed' = [passed EXCEPT ![self] = @ \o MethodsPassed(ms)]

\* a program adds a route for a path of an API
RouteToPath ==
    /\ last.n < MaxOps
    /\ \E self \in DOMAIN apis, path \in RoutePaths, ms \in RouteMethodArgs,
          authorization \in Authorizations :
          /\ ReturnedRoutes(add_proxy_route(World, self, path, ms, authorization),
                            [NoCall EXCEPT !.op = "add_proxy_route", !.self = self,
                                           !.path = path, !.methods = ms],
                            RoutesOf(self, "proxy", path, ms))
          /\ passed' = [passed EXCEPT ![self] = @ \o MethodsPassed(ms)]

NextRoutes ==
    \/ Construct
    \/ RouteToRoot
    \/ RouteToPath

NextApi ==
    \/ Construct
    \/ AddRootRoute
    \/ AddProxyRoute
    \/ Deploy
    \/ GetEndpointUrl
    \/ CreateLambdaRestApi

-----------------------------------------------------------------------------
(* The policy statement synthesizer (policy_config.py).  A dict that is     *)
(* read in insertion order is a sequence of its entries.                    *)

DYNAMODB_POLICIES ==
    << [key |-> "full_access",
        description |-> "Full CRUD access to DynamoDB table",
        actions |-> << "dynamodb:PutItem", "dynamodb:GetItem", "dynamodb:UpdateItem",
                       "dynamodb:DeleteItem", "dynamodb:Scan", "dynamodb:Query",
                       "dynamodb:BatchGetItem", "dynamodb:BatchWriteItem" >>],
       [key |-> "read_only",
        description |-> "Read-only access to DynamoDB table",
        actions |-> << "dynamodb:GetItem", "dynamodb:Scan", "dynamodb:Query",
                       "dynamodb:BatchGetItem" >>],
       [key |-> "write_only",
        description |-> "Write-only access to DynamoDB table",
        actions |-> << "dynamodb:PutItem", "dynamodb:UpdateItem", "dynamodb:DeleteItem",
                       "dynamodb:BatchWriteItem" >>] >>

S3_POLICIES ==
    << [key |-> "full_access",
        description |-> "Full access to S3 bucket and objects",
        actions |-> << "s3:GetObject", "s3:PutObject", "s3:DeleteObject", "s3:ListBucket",
                       "s3:GetObjectVersion", "s3:DeleteObjectVersion", "s3:PutObjectAcl",
                       "s3:GetObjectAcl" >>],
       [key |-> "read_only",
        description |-> "Read-only access to S3 bucket and objects",
        actions |-> << "s3:GetObject", "s3:ListBucket", "s3:GetObjectVersion",
                       "s3:GetObjectAcl" >>],
       [key |-> "write_only",
        description |-> "Write-only access to S3 bucket and objects",
        actions |-> << "s3:PutObject", "s3:DeleteObject", "s3:DeleteObjectVersion",
                       "s3:PutObjectAcl" >>],
       [key |-> "list_only",
        description |-> "List-only access to S3 bucket",
        actions |-> << "s3:ListBucket" >>] >>

CLOUDWATCH_POLICIES ==
    << [key |-> "logs_write",
        description |-> "Write access to CloudWatch Logs",
        actions |-> << "logs:CreateLogGroup", "logs:CreateLogStream",
                       "logs:PutLogEvents" >>] >>

\* list(d.keys()), key in d, d[key]
Keys(d) == [i \in DOMAIN d |-> d[i].key]
HasKey(d, key) == \E i \in DOMAIN d : d[i].key = key
Lookup(d, key) == d[CHOOSE i \in DOMAIN d : d[i].key = key]

\* str(list) of a list of strings: ['a', 'b']
RECURSIVE ReprItems(_)
ReprItems(l) ==
    IF l = <<>> THEN ""
    ELSE "'" \o Head(l) \o "'" \o (IF Len(l) > 1 THEN ", " ELSE "") \o ReprItems(Tail(l))
ReprList(l) == "[" \o ReprItems(l) \o "]"

\* InvalidAccessLevel naming the value only
InvalidAccessLevelWithoutKeys(access_level, d) ==
    [type |-> "ValueError",
     message |-> "Invalid access level: " \o access_level]

InvalidAccessLevel(access_level, d) ==
    [type |-> "ValueError",
     message |-> "Invalid access level: " \o access_level \o ". Must be one of "
                 \o ReprList(Keys(d))]

\* The list objects that are the "actions" values of the two tables, in the
\* order the module creates them when it is imported.  heap[a] is what list
\* object a holds now; the tables and the statements hold list objects, not
\* copies of their contents.
TableEntries == DYNAMODB_POLICIES \o S3_POLICIES \o CLOUDWATCH_POLICIES
ImportedHeap == [a \in DOMAIN TableEntries |-> TableEntries[a].actions]

\* policy_config["actions"]: the list object of the table entry
ActionsOf(policy_config) == CHOOSE a \in DOMAIN TableEntries : TableEntries[a] = policy_config

\* a call's outcome: what it returned, or what it raised, and the heap it left
Return(h, v) == [raised |-> None, ret |-> Some(v), heap |-> h]
Raise(h, x) == [raised |-> Some(x), ret |-> None, heap |-> h]

\* create_dynamodb_policy_statement scoped to the indexes of the table
create_dynamodb_policy_statement_on_indexes(h, table_arn, access_level) ==
    IF ~HasKey(DYNAMODB_POLICIES, access_level)
    THEN Raise(h, InvalidAccessLevel(access_level, DYNAMODB_POLICIES))
    ELSE LET policy_config == Lookup(DYNAMODB_POLICIES, access_level)
         IN Return(h, [Effect |-> "Allow",
                       Action |-> ActionsOf(policy_config),
                       Resource |-> table_arn \o "/index/*"])

\* create_dynamodb_policy_statement taking the first action out of the table's
\* list (actions.pop(0)) and granting the rest
create_dynamodb_policy_statement_popping(h, table_arn, access_level) ==
    IF ~HasKey(DYNAMODB_POLICIES, access_level)
    THEN Raise(h, InvalidAccessLevel(access_level, DYNAMODB_POLICIES))
    ELSE LET policy_config == Lookup(DYNAMODB_POLICIES, access_level)
             a == ActionsOf(policy_config)
         IN Return([h EXCEPT ![a] = IF @ = <<>> THEN @ ELSE Tail(@)],
                   [Effect |-> "Allow",
                    Action |-> a,
                    Resource |-> table_arn])

create_dynamodb_policy_statement(h, table_arn, access_level) ==
    IF ~HasKey(DYNAMODB_POLICIES, access_level)
    THEN Raise(h, InvalidAccessLevel(access_level, DYNAMODB_POLICIES))
    ELSE LET policy_config == Lookup(DYNAMODB_POLICIES, access_level)
         IN Return(h, [Effect |-> "Allow",
                       Action |-> ActionsOf(policy_config),
                       Resource |-> table_arn])

\* BucketActions with the test inverted
BucketActionsInverted(actions) == SelectSeq(actions, LAMBDA action : Contains(action, "Object"))

\* [action for action in actions if "Object" not in action]
BucketActions(actions) == SelectSeq(actions, LAMBDA action : ~Contains(action, "Object"))

\* ObjectActions keeping every action
ObjectActionsUnfiltered(actions) == actions

\* [action for action in actions if "Object" in action]
ObjectActions(actions) == SelectSeq(actions, LAMBDA action : Contains(action, "Object"))

\* ObjectResource leaving the bucket identifier as it is
ObjectResourceOfBucket(bucket_arn) == bucket_arn

\* f"{bucket_arn}/*"
ObjectResource(bucket_arn) == bucket_arn \o "/*"

\* ListOnlyStatement scoped to the objects of the bucket
ListOnlyStatementOnObjects(policy_config, bucket_arn) ==
    [Effect |-> "Allow",
     Action |-> ActionsOf(policy_config),
     Resource |-> bucket_arn \o "/*"]

\* the statement of the list_only branch
ListOnlyStatement(policy_config, bucket_arn) ==
    [Effect |-> "Allow",
     Action |-> ActionsOf(policy_config),
     Resource |-> bucket_arn]

\* each list comprehension makes a new list object
create_s3_policy_statement(h, bucket_arn, access_level) ==
    IF ~HasKey(S3_POLICIES, access_level)
    THEN Raise(h, InvalidAccessLevel(access_level, S3_POLICIES))
    ELSE LET policy_config == Lookup(S3_POLICIES, access_level)
             h1 == Append(h, BucketActions(h[ActionsOf(policy_config)]))
             bucket_actions == Len(h1)
             h2 == Append(h1, ObjectActions(h1[ActionsOf(policy_config)]))
             object_actions == Len(h2)
             bucket_statement == [Effect |-> "Allow",
                                  Action |-> bucket_actions,
                                  Resource |-> bucket_arn]
             object_statement == [Effect |-> "Allow",
                                  Action |-> object_actions,
                                  Resource |-> ObjectResource(bucket_arn)]
         IN IF access_level = "list_only"
            THEN Return(h, << ListOnlyStatement(policy_config, bucket_arn) >>)
            ELSE Return(h2, (IF h2[bucket_actions] # <<>> THEN <<bucket_statement>> ELSE <<>>)
                            \o (IF h2[object_actions] # <<>> THEN <<object_statement>>
                                ELSE <<>>))

\* a statement, or a list of statements, with the contents of its Action lists
Contents(h, statement) == [statement EXCEPT !.Action = h[@]]
ContentsOfAll(h, statements) == [i \in DOMAIN statements |-> Contents(h, statements[i])]

\* the number of synthesizer calls a program makes
MaxSynth == 2

Arns == {"arn:table/X", "arn:bucket/Y"}
AccessLevels == {"full_access", "read_only", "write_only", "list_only", "admin", ""}

InitPolicy ==
    /\ synth = <<>>
    /\ heap = ImportedHeap

\* a logged call: ret is what the call returned, value what ret held when the
\* call returned
CreateDynamodbPolicyStatement ==
    /\ Len(synth) < MaxSynth
    /\ \E table_arn \in Arns, access_level \in AccessLevels :
          LET out == create_dynamodb_policy_statement(heap, table_arn, access_level)
          IN /\ synth' = Append(synth,
                                [fn |-> "create_dynamodb_policy_statement",
                                 arn |-> table_arn, access_level |-> access_level,
                                 raised |-> out.raised, ret |-> out.ret,
                                 value |-> IF IsNone(out.ret) THEN None
                                           ELSE Some(Contents(out.heap, Value(out.ret)))])
             /\ heap' = out.heap
    /\ UNCHANGED <<ApiVars, StackVars, OtherVars>>

CreateS3PolicyStatement ==
    /\ Len(synth) < MaxSynth
    /\ \E bucket_arn \in Arns, access_level \in AccessLevels :
          LET out == create_s3_policy_statement(heap, bucket_arn, access_level)
          IN /\ synth' = Append(synth,
                                [fn |-> "create_s3_policy_statement",
                                 arn |-> bucket_arn, access_level |-> access_level,
                                 raised |-> out.raised, ret |-> out.ret,
                                 value |-> IF IsNone(out.ret) THEN None
                                           ELSE Some(ContentsOfAll(out.heap, Value(out.ret)))])
             /\ heap' = out.heap
    /\ UNCHANGED <<ApiVars, StackVars, OtherVars>>

NextPolicy ==
    \/ CreateDynamodbPolicyStatement
    \/ CreateS3PolicyStatement

\* What a caller can do with a returned statement: statement["Action"] is a
\* Python list, and the caller appends an action to it (once per list).
StatementsReturned(call) ==
    IF IsNone(call.ret) THEN <<>>
    ELSE IF call.fn = "create_dynamodb_policy_statement" THEN <<Value(call.ret)>>
    ELSE Value(call.ret)

AppendedAction == "iam:PassRole"

ChangeReturnedActions ==
    /\ \E c \in DOMAIN synth : \E j \in DOMAIN StatementsReturned(synth[c]) :
          LET a == StatementsReturned(synth[c])[j].Action
          IN /\ \A i \in DOMAIN heap[a] : heap[a][i] # AppendedAction
             /\ heap' = [heap EXCEPT ![a] = Append(@, AppendedAction)]
    /\ UNCHANGED synth
    /\ UNCHANGED <<ApiVars, StackVars, OtherVars>>

NextCaller ==
    \/ NextPolicy
    \/ ChangeReturnedActions

-----------------------------------------------------------------------------
(* Policy documents and the inline role policies (common/iam.py,            *)
(* app_layer/iam_policies.py).  An argument that may be a pulumi.Output is  *)
(* a record: kind "str" with its value, or kind "Output" with the value the *)
(* engine resolves it to.                                                   *)

Str(s) == [kind |-> "str", value |-> s]
Output(v) == [kind |-> "Output", value |-> v]

\* output.apply(fn): a new Output; the engine runs fn later, once output is
\* resolved.  access_level is the variable of the enclosing call fn reads.
Apply(output, fn, access_level) ==
    [kind |-> "Output", apply |-> fn, of |-> output.value, access_level |-> access_level,
     state |-> "pending", value |-> None, raised |-> None]

\* sep.join(items)
RECURSIVE JoinWith(_, _)
JoinWith(items, sep) ==
    IF items = <<>> THEN ""
    ELSE Head(items) \o (IF Len(items) > 1 THEN sep ELSE "") \o JoinWith(Tail(items), sep)

\* json.dumps of a string without characters to escape, of a list, and of a
\* statement dict, whose keys are inserted as Effect, Action, Resource
JsonString(str) == "\"" \o str \o "\""
JsonList(items) == "[" \o JoinWith(items, ", ") \o "]"
JsonStatement(h, statement) ==
    "{\"Effect\": " \o JsonString(statement.Effect)
    \o ", \"Action\": "
    \o JsonList([i \in DOMAIN h[statement.Action] |-> JsonString(h[statement.Action][i])])
    \o ", \"Resource\": " \o JsonString(statement.Resource) \o "}"

\* json.dumps of a policy document
json_dumps(h, policy_document) ==
    "{\"Version\": " \o JsonString(policy_document.Version)
    \o ", \"Statement\": "
    \o JsonList([i \in DOMAIN policy_document.Statement |->
                    JsonStatement(h, policy_document.Statement[i])])
    \o "}"

create_cloudwatch_logs_policy_statement(h, log_group_arn) ==
    Return(h, [Effect |-> "Allow",
               Action |-> ActionsOf(Lookup(CLOUDWATCH_POLICIES, "logs_write")),
               Resource |-> log_group_arn])

\* the outcome of a function that declares resources: the resources declared
\* so far, the heap, and what it returned (the index of the resource) or raised
Declared(d, h, resource) ==
    [declared |-> Append(d, resource), heap |-> h, raised |-> None, ret |-> Some(Len(d) + 1)]
Aborted(d, h, x) == [declared |-> d, heap |-> h, raised |-> x, ret |-> None]

RolePolicy(name, role, policy) ==
    [type |-> "aws:iam/rolePolicy:RolePolicy", name |-> name, role |-> role,
     policy |-> policy]

\* create_custom_policy writing the statements in reverse order
create_custom_policy_reversed(d, h, name_prefix, role, policy_statements) ==
    LET policy_document ==
            [Version |-> "2012-10-17",
             Statement |-> [i \in DOMAIN policy_statements |->
                               policy_statements[Len(policy_statements) + 1 - i]]]
    IN Declared(d, h, RolePolicy(name_prefix \o "-custom-policy", ResourceId(role),
                                 Str(json_dumps(h, policy_document))))

create_custom_policy(d, h, name_prefix, role, policy_statements) ==
    LET policy_document == [Version |-> "2012-10-17", Statement |-> policy_statements]
    IN Declared(d, h, RolePolicy(name_prefix \o "-custom-policy", ResourceId(role),
                                 Str(json_dumps(h, policy_document))))

\* create_dynamodb_policy.create_policy_doc
create_policy_doc_dynamodb(h, arn, access_level) ==
    LET out == create_dynamodb_policy_statement(h, arn, access_level)
    IN IF ~IsNone(out.raised) THEN out
       ELSE Return(out.heap,
                   json_dumps(out.heap, [Version |-> "2012-10-17",
                                         Statement |-> <<Value(out.ret)>>]))

\* create_s3_policy.create_policy_doc
create_policy_doc_s3(h, arn, access_level) ==
    LET out == create_s3_policy_statement(h, arn, access_level)
    IN IF ~IsNone(out.raised) THEN out
       ELSE Return(out.heap,
                   json_dumps(out.heap, [Version |-> "2012-10-17",
                                         Statement |-> Value(out.ret)]))

create_dynamodb_policy(d, h, name_prefix, role, table_arn, access_level) ==
    IF table_arn.kind = "Output"
    THEN Declared(d, h, RolePolicy(name_prefix \o "-dynamodb-policy", ResourceId(role),
                                   Apply(table_arn, "create_dynamodb_policy.create_policy_doc",
                                         access_level)))
    ELSE LET out == create_policy_doc_dynamodb(h, table_arn.value, access_level)
         IN IF ~IsNone(out.raised) THEN Aborted(d, out.heap, out.raised)
            ELSE Declared(d, out.heap,
                          RolePolicy(name_prefix \o "-dynamodb-policy", ResourceId(role),
                                     Str(Value(out.ret))))

create_s3_policy(d, h, name_prefix, role, bucket_arn, access_level) ==
    IF bucket_arn.kind = "Output"
    THEN Declared(d, h, RolePolicy(name_prefix \o "-s3-policy", ResourceId(role),
                                   Apply(bucket_arn, "create_s3_policy.create_policy_doc",
                                         access_level)))
    ELSE LET out == create_policy_doc_s3(h, bucket_arn.value, access_level)
         IN IF ~IsNone(out.raised) THEN Aborted(d, out.heap, out.raised)
            ELSE Declared(d, out.heap,
                          RolePolicy(name_prefix \o "-s3-policy", ResourceId(role),
                                     Str(Value(out.ret))))

create_cloudwatch_logs_policy(d, h, name_prefix, role, log_group_arn) ==
    LET statement == Value(create_cloudwatch_logs_policy_statement(h, log_group_arn).ret)
    IN create_custom_policy(d, h, name_prefix \o "-cloudwatch-logs", role, <<statement>>)

\* the callback of an Output made by apply, run by the engine
RunCallback(h, output) ==
    IF output.apply = "create_dynamodb_policy.create_policy_doc"
    THEN create_policy_doc_dynamodb(h, output.of, output.access_level)
    ELSE create_policy_doc_s3(h, output.of, output.access_level)

-----------------------------------------------------------------------------
(* The role policy functions' state machine: one action per call, and one   *)
(* for the engine running the callback of an Output made by apply           *)

\* the number of calls a program makes to the functions that declare resources
MaxCalls == 2

NamePrefixes == {"lambda"}
Roles == {"lambda-role"}
TableArns == {Str("arn:table/X"), Output("arn:table/X")}
BucketArns == {Str("arn:bucket/Y"), Output("arn:bucket/Y")}
PolicyAccessLevels == {"full_access", "read_only", "list_only", "admin"}
LogGroupArns == {"*"}

\* the statement lists create_custom_policy is called with: each is made of
\* the synthesizer's results for the calls listed
StatementPlans ==
    { <<>>,
      << [fn |-> "create_s3_policy_statement", arn |-> "arn:bucket/Y",
          access_level |-> "full_access"] >>,
      << [fn |-> "create_dynamodb_policy_statement", arn |-> "arn:table/X",
          access_level |-> "read_only"],
         [fn |-> "create_s3_policy_statement", arn |-> "arn:bucket/Y",
          access_level |-> "list_only"] >> }

RECURSIVE Provided(_, _)
Provided(h, plan) ==
    IF plan = <<>> THEN [heap |-> h, statements |-> <<>>]
    ELSE LET out == IF Head(plan).fn = "create_dynamodb_policy_statement"
                    THEN create_dynamodb_policy_statement(h, Head(plan).arn,
                                                          Head(plan).access_level)
                    ELSE create_s3_policy_statement(h, Head(plan).arn,
                                                    Head(plan).access_level)
             rest == Provided(out.heap, Tail(plan))
         IN [heap |-> rest.heap,
             statements |-> StatementsReturned([fn |-> Head(plan).fn, ret |-> out.ret])
                            \o rest.statements]

NoStackCall ==
    [fn |-> "", name_prefix |-> "", role |-> "", arn |-> Str(""), access_level |-> "",
     policy_statements |-> <<>>, stack_name |-> "", versioning |-> FALSE,
     encryption |-> FALSE, public_access_block |-> FALSE, tags |-> None,
     given |-> None,
     n_before |-> 0, n_after |-> 0, raised |-> None, ret |-> None]

\* a call's effect and its entry in the log: ret is the index in declared of
\* the resource the call returned, n_before and n_after the number of
\* resources declared when it was made and when it ended
Logged(out, call) ==
    /\ declared' = out.declared
    /\ heap' = out.heap
    /\ calls' = Append(calls, [call EXCEPT !.raised = out.raised, !.ret = out.ret,
                                           !.n_before = Len(declared),
                                           !.n_after = Len(out.declared)])
    /\ UNCHANGED <<ApiVars, synth, exports, OtherVars>>

InitStack ==
    /\ declared = <<>>
    /\ calls = <<>>
    /\ exports = <<>>

CreateCustomPolicy ==
    /\ Len(calls) < MaxCalls
    /\ \E name_prefix \in NamePrefixes, role \in Roles, plan \in StatementPlans :
          LET given == Provided(heap, plan)
          IN Logged(create_custom_policy(declared, given.heap, name_prefix, role,
                                         given.statements),
                    [NoStackCall EXCEPT !.fn = "create_custom_policy",
                                        !.name_prefix = name_prefix, !.role = role,
                                        !.policy_statements =
                                            ContentsOfAll(given.heap, given.statements)])

CreateCloudwatchLogsPolicy ==
    /\ Len(calls) < MaxCalls
    /\ \E name_prefix \in NamePrefixes, role \in Roles, log_group_arn \in LogGroupArns :
          Logged(create_cloudwatch_logs_policy(declared, heap, name_prefix, role,
                                               log_group_arn),
                 [NoStackCall EXCEPT !.fn = "create_cloudwatch_logs_policy",
                                     !.name_prefix = name_prefix, !.role = role,
                                     !.arn = Str(log_group_arn)])

CreateDynamodbPolicy ==
    /\ Len(calls) < MaxCalls
    /\ \E name_prefix \in NamePrefixes, role \in Roles, table_arn \in TableArns,
          access_level \in PolicyAccessLevels :
          Logged(create_dynamodb_policy(declared, heap, name_prefix, role, table_arn,
                                        access_level),
                 [NoStackCall EXCEPT !.fn = "create_dynamodb_policy",
                                     !.name_prefix = name_prefix, !.role = role,
                                     !.arn = table_arn, !.access_level = access_level])

CreateS3Policy ==
    /\ Len(calls) < MaxCalls
    /\ \E name_prefix \in NamePrefixes, role \in Roles, bucket_arn \in BucketArns,
          access_level \in PolicyAccessLevels :
          Logged(create_s3_policy(declared, heap, name_prefix, role, bucket_arn,
                                  access_level),
                 [NoStackCall EXCEPT !.fn = "create_s3_policy",
                                     !.name_prefix = name_prefix, !.role = role,
                                     !.arn = bucket_arn, !.access_level = access_level])

\* the engine resolves the Output a policy document was derived from and
\* runs create_policy_doc on its value
RunApply ==
    /\ \E i \in DOMAIN declared :
          /\ declared[i].type = "aws:iam/rolePolicy:RolePolicy"
          /\ declared[i].policy.kind = "Output"
          /\ declared[i].policy.state = "pending"
          /\ LET out == RunCallback(heap, declared[i].policy)
             IN /\ declared' =
                       [declared EXCEPT ![i].policy =
                           IF IsNone(out.raised)
                           THEN [@ EXCEPT !.state = "resolved", !.value = out.ret]
                           ELSE [@ EXCEPT !.state = "rejected", !.raised = out.raised]]
                /\ heap' = out.heap
    /\ UNCHANGED <<calls, synth, ApiVars, exports, OtherVars>>

NextIam ==
    \/ CreateCustomPolicy
    \/ CreateCloudwatchLogsPolicy
    \/ CreateDynamodbPolicy
    \/ CreateS3Policy
    \/ RunApply

-----------------------------------------------------------------------------
(* Buckets, tables, roles (common/s3.py, common/dynamoDB.py,                *)
(* app_layer/iam_policies.py) and the two stacks (bootstrap/bootstrap.py,   *)
(* app_layer/app_layer.py, __main__.py).  A resource a function returns or  *)
(* is given is its index in declared.                                       *)

\* the properties of _config
account_id(c, e) == Value(_ensure_initialized(c, e)._current).account_id
config_stack_name(c, e) == Value(_ensure_initialized(c, e)._stack_name)

\* The whole program state as one value: the API composer's World, the
\* resources the other functions declared, the heap and the stack's exports.
Program == World @@ [declared |-> declared, heap |-> heap, exports |-> exports]

\* tags or {}
OrEmptyDict(tags) == IF IsNone(tags) \/ Value(tags) = EmptyDict THEN EmptyDict ELSE Value(tags)

\* a resource constructor call: ret is the new resource
Declare(p, resource) ==
    [p EXCEPT !.declared = Append(@, resource), !.ret = Some(Len(p.declared) + 1)]

\* resource.id
IdOf(p, resource) == ResourceId(p.declared[resource].name)

\* the arn the provider assigns to a bucket, a table and a role
BucketArn(bucket_name) == "arn:aws:s3:::" \o bucket_name
TableArn(table_name) == "arn:aws:dynamodb:us-west-2:123456789012:table/" \o table_name
RoleArn(role_name) == "arn:aws:iam::123456789012:role/" \o role_name

enable_versioning(p, bucket, name_prefix) ==
    Declare(p, [type |-> "aws:s3/bucketVersioning:BucketVersioning",
                name |-> name_prefix \o "-versioning",
                bucket |-> IdOf(p, bucket),
                versioning_configuration |-> [status |-> "Enabled"]])

enable_encryption(p, bucket, name_prefix) ==
    Declare(p, [type |-> "aws:s3/bucketServerSideEncryptionConfiguration:BucketServerSideEncryptionConfiguration",
                name |-> name_prefix \o "-encryption",
                bucket |-> IdOf(p, bucket),
                rules |-> << [apply_server_side_encryption_by_default |->
                                  [sse_algorithm |-> "AES256"],
                              bucket_key_enabled |-> TRUE] >>])

enable_public_access_block(p, bucket, name_prefix) ==
    Declare(p, [type |-> "aws:s3/bucketPublicAccessBlock:BucketPublicAccessBlock",
                name |-> name_prefix \o "-pab",
                bucket |-> IdOf(p, bucket),
                block_public_acls |-> TRUE,
                block_public_policy |-> TRUE,
                ignore_public_acls |-> TRUE,
                restrict_public_buckets |-> TRUE])

\* BucketName with the region before the account id
BucketNameRegionFirst(name_prefix, account, region) ==
    name_prefix \o "-" \o region \o "-" \o account

\* f"{name_prefix}-{_config.account_id}-{_config.region_name}"
BucketName(name_prefix, account, region) ==
    name_prefix \o "-" \o account \o "-" \o region

\* a dict the caller made: the program with the dict on its heap; the dict's
\* address is the heap's length
Alloc(p, dict) == [p EXCEPT !.heap = Append(@, dict)]

\* the dict an argument refers to, or None
Deref(h, tags) == IF IsNone(tags) THEN None ELSE Some(h[Value(tags)])

\* the tags passed on as they came
TagsAsGiven(tags) == tags

\* tags or {} as the optional argument of a resource: Some(dict), never None
TagsOrEmptyDict(tags) == Some(OrEmptyDict(tags))

\* NewBucket writing the bucket's name into the caller's dict as the tag Name
NewBucketStampingTags(p, name_prefix, bucket_name, tags) ==
    LET stamped == IF IsNone(tags)
                   THEN p
                   ELSE [p EXCEPT !.heap[Value(tags)] = DictSet(@, "Name", bucket_name)]
    IN Declare(stamped, [type |-> "aws:s3/bucket:Bucket",
                         name |-> name_prefix \o "-bucket",
                         bucket |-> bucket_name,
                         tags |-> TagsOrEmptyDict(Deref(stamped.heap, tags))])

\* aws.s3.Bucket(f"{name_prefix}-bucket", bucket=bucket_name, tags=tags or {}):
\* tags is None or the address of the caller's dict; the constructor
\* serialises the dict it is given, so the resource holds the dict's contents
NewBucket(p, name_prefix, bucket_name, tags) ==
    Declare(p, [type |-> "aws:s3/bucket:Bucket",
                name |-> name_prefix \o "-bucket",
                bucket |-> bucket_name,
                tags |-> TagsOrEmptyDict(Deref(p.heap, tags))])

\* create_s3_bucket applying encryption only to a versioned bucket
create_s3_bucket_encrypting_versioned(p, e, name_prefix, versioning, encryption, public_access_block, tags) ==
    LET c == _ensure_initialized(p.config, e)
        bucket_name == BucketName(name_prefix, account_id(p.config, e), region_name(c, e))
        p1 == NewBucket([p EXCEPT !.config = c], name_prefix, bucket_name, tags)
        bucket == Value(p1.ret)
        p2 == IF versioning THEN enable_versioning(p1, bucket, name_prefix) ELSE p1
        versioning_resource == IF versioning THEN p2.ret ELSE None
        p3 == IF versioning /\ encryption
              THEN enable_encryption(p2, bucket, name_prefix) ELSE p2
        encryption_resource == IF versioning /\ encryption THEN p3.ret ELSE None
        p4 == IF public_access_block
              THEN enable_public_access_block(p3, bucket, name_prefix) ELSE p3
        public_access_block_resource == IF public_access_block THEN p4.ret ELSE None
    IN [p4 EXCEPT !.ret = Some([bucket |-> bucket,
                                versioning |-> versioning_resource,
                                encryption |-> encryption_resource,
                                public_access_block |-> public_access_block_resource])]

\* returns S3BucketResources: the bucket and, for each flag, the resource
\* made for it or None
create_s3_bucket(p, e, name_prefix, versioning, encryption, public_access_block, tags) ==
    LET c == _ensure_initialized(p.config, e)
        bucket_name == BucketName(name_prefix, account_id(p.config, e), region_name(c, e))
        p1 == NewBucket([p EXCEPT !.config = c], name_prefix, bucket_name, tags)
        bucket == Value(p1.ret)
        p2 == IF versioning THEN enable_versioning(p1, bucket, name_prefix) ELSE p1
        versioning_resource == IF versioning THEN p2.ret ELSE None
        p3 == IF encryption THEN enable_encryption(p2, bucket, name_prefix) ELSE p2
        encryption_resource == IF encryption THEN p3.ret ELSE None
        p4 == IF public_access_block
              THEN enable_public_access_block(p3, bucket, name_prefix) ELSE p3
        public_access_block_resource == IF public_access_block THEN p4.ret ELSE None
    IN [p4 EXCEPT !.ret = Some([bucket |-> bucket,
                                versioning |-> versioning_resource,
                                encryption |-> encryption_resource,
                                public_access_block |-> public_access_block_resource])]

create_dynamodb_table(p, e, name_prefix, hash_key, attributes, tags) ==
    Declare([p EXCEPT !.config = _ensure_initialized(@, e)],
            [type |-> "aws:dynamodb/table:Table",
             name |-> name_prefix,
             table_name |-> name_prefix \o "-" \o account_id(p.config, e),
             billing_mode |-> "PAY_PER_REQUEST",
             hash_key |-> hash_key,
             attributes |-> attributes,
             tags |-> tags])

\* json.dumps(trust_policy)
TrustPolicy ==
    "{\"Version\": \"2012-10-17\", \"Statement\": [{\"Action\": \"sts:AssumeRole\", "
    \o "\"Principal\": {\"Service\": \"lambda.amazonaws.com\"}, \"Effect\": \"Allow\"}]}"

\* for i, policy_arn in enumerate(additional_policies), from index i on
RECURSIVE AttachAdditional(_, _, _, _, _)
AttachAdditional(p, name_prefix, role, additional_policies, i) ==
    IF i >= Len(additional_policies) THEN p
    ELSE AttachAdditional(
             Declare(p, [type |-> "aws:iam/rolePolicyAttachment:RolePolicyAttachment",
                         name |-> name_prefix \o "-additional-policy-" \o ToString(i),
                         role |-> p.declared[role].name,
                         policy_arn |-> additional_policies[i + 1]]),
             name_prefix, role, additional_policies, i + 1)

create_lambda_execution_role(p, name_prefix, additional_policies, tags) ==
    LET p1 == Declare(p, [type |-> "aws:iam/role:Role",
                          name |-> name_prefix \o "-role",
                          assume_role_policy |-> TrustPolicy,
                          tags |-> OrEmptyDict(tags)])
        role == Value(p1.ret)
        p2 == Declare(p1, [type |-> "aws:iam/rolePolicyAttachment:RolePolicyAttachment",
                           name |-> name_prefix \o "-basic-policy",
                           role |-> p1.declared[role].name,
                           policy_arn |-> "arn:aws:iam::aws:policy/service-role/AWSLambdaBasicExecutionRole"])
        p3 == IF ~IsNone(additional_policies) /\ Value(additional_policies) # <<>>
              THEN AttachAdditional(p2, name_prefix, role, Value(additional_policies), 0)
              ELSE p2
    IN [p3 EXCEPT !.ret = Some(role)]

\* pulumi.export(name, value)
Export(p, name, value) == [p EXCEPT !.exports = Append(@, [name |-> name, value |-> value])]

\* a resource object given where a value is expected
Resource(resource) == [kind |-> "Resource", value |-> resource]

\* the f-string of the usage instructions; bucket is str(args[0])
UsageInstructions(bucket) ==
    "\nTo use this S3 backend in other Pulumi stacks:\n\n"
    \o "1. Set the backend URL:\n  pulumi login s3://" \o bucket \o "\n\n"
    \o "2. Or configure programmatically by adding this to your project's Pulumi.yaml:\n"
    \o "  backend:\n    url: s3://" \o bucket \o "\n\n"
    \o "3. The DynamoDB table will be used automatically for state locking.\n"

\* the value of a one-element set: Only({f(x) : x \in {v}}) is f(v) with v
\* computed once, as a Python local holds the result of one call
Only(S) == CHOOSE x \in S : TRUE

\* the exports of deploy_bootstrap_stack
BootstrapExports(p2, e, state_bucket, lock_table) ==
    LET lock_table_name == Output(p2.declared[lock_table].table_name)
        p3 == Export(p2, "state_bucket_name", Resource(state_bucket.bucket))
        p4 == Export(p3, "state_bucket_region", Str(region_name(p2.config, e)))
        p5 == Export(p4, "lock_table_name", lock_table_name)
        p6 == Export(p5, "aws_account_id", Str(account_id(p2.config, e)))
        backend_config == [bucket |-> Resource(state_bucket.bucket),
                           region |-> Str(region_name(p2.config, e)),
                           dynamodb_table |-> lock_table_name]
        p7 == Export(p6, "backend_config", [kind |-> "dict", value |-> backend_config])
        instructions == [kind |-> "Output", apply |-> "deploy_bootstrap_stack.<lambda>",
                         of |-> <<Resource(state_bucket.bucket)>>,
                         state |-> "pending", value |-> None, raised |-> None]
        p8 == Export(p7, "usage_instructions", instructions)
    IN [p8 EXCEPT !.ret = None]

deploy_bootstrap_stack(p, e) ==
    Only({ Only({ BootstrapExports(p2, e, Value(p1.ret), Value(p2.ret))
    : p2 \in {create_dynamodb_table(p1, e, "pulumi-state-lock", "LockID",
                                    Some(<<[name |-> "LockID", type |-> "S"]>>),
                                    Some([Purpose |-> "Pulumi State Locking",
                                          Environment |-> "Bootstrap",
                                          ManagedBy |-> "Pulumi"]))} })
    : p1 \in {create_s3_bucket(Alloc(p, [Purpose |-> "Pulumi State Storage",
                                         Environment |-> "Bootstrap",
                                         ManagedBy |-> "Pulumi"]),
                               e, "pulumi-state", TRUE, TRUE, TRUE,
                               Some(Len(p.heap) + 1))} })

\* the Lambda function of deploy_application_stack
ApiLambda(p, stack_name, s3_resources, dynamodb_table, lambda_role) ==
    [type |-> "aws:lambda/function:Function",
     name |-> "api-lambda",
     role |-> RoleArn(p.declared[lambda_role].name),
     runtime |-> "python3.13",
     handler |-> "app.handler",
     code |-> "../src/lambda",
     environment |-> [DYNAMODB_TABLE |-> p.declared[dynamodb_table].table_name,
                      S3_BUCKET |-> IdOf(p, s3_resources.bucket)],
     tags |-> [Name |-> "API Lambda Function", Environment |-> stack_name]]

\* the REST API arguments of deploy_application_stack
ApiArgs(stack_name) ==
    [name |-> "api", lambda_function |-> LambdaOf("api-lambda"),
     stage_name |-> stack_name,
     description |-> Some("Simple REST API with Lambda backend"),
     tags |-> Some([Name |-> "Simple API", Environment |-> stack_name,
                    ManagedBy |-> "Pulumi"])]

\* the exports of deploy_application_stack
ApplicationExports(p7, s3_resources, dynamodb_table) ==
    LET p8 == Export(p7, "api_url", Output(Value(p7.ret).endpoint_url))
        p9 == Export(p8, "bucket_name", Output(IdOf(p7, s3_resources.bucket)))
        p10 == Export(p9, "dynamodb_table_name",
                      Output(p7.declared[dynamodb_table].table_name))
        p11 == Export(p10, "lambda_function_name", Output("api-lambda"))
    IN [p11 EXCEPT !.ret = None]

\* a program after a role policy function returned
AfterPolicy(p, outcome) ==
    [p EXCEPT !.declared = outcome.declared, !.heap = outcome.heap]

\* the statements of deploy_application_stack run top to bottom; they read
\* here from the innermost binding (p1, the bucket) outwards
deploy_application_stack(p, e, stack_name) ==
    Only({ Only({ Only({ Only({ Only({ Only({ Only({
        ApplicationExports(p7, Value(p1.ret), Value(p2.ret))
    : p7 \in {create_lambda_rest_api(p6, e, ApiArgs(stack_name), TRUE, TRUE)} })
    : p6 \in {Declare(p5, ApiLambda(p5, stack_name, Value(p1.ret), Value(p2.ret),
                                    Value(p3.ret)))} })
    : p5 \in {AfterPolicy(p4,
                 create_s3_policy(p4.declared, p4.heap, "lambda",
                                  p4.declared[Value(p3.ret)].name,
                                  Output(BucketArn(p4.declared[Value(p1.ret).bucket].bucket)),
                                  "full_access"))} })
    : p4 \in {AfterPolicy(p3,
                 create_dynamodb_policy(p3.declared, p3.heap, "lambda",
                                        p3.declared[Value(p3.ret)].name,
                                        Output(TableArn(p3.declared[Value(p2.ret)].table_name)),
                                        "full_access"))} })
    : p3 \in {create_lambda_execution_role(p2, "lambda", None,
                                           Some([Name |-> "Lambda Execution Role",
                                                 Environment |-> stack_name,
                                                 ManagedBy |-> "Pulumi"]))} })
    : p2 \in {create_dynamodb_table(p1, e, "api-table", "id",
                                    Some(<<[name |-> "id", type |-> "S"]>>),
                                    Some([Name |-> "API DynamoDB Table",
                                          Environment |-> stack_name]))} })
    : p1 \in {create_s3_bucket(Alloc(p, [Purpose |-> "App storage bucket",
                                         Environment |-> stack_name,
                                         ManagedBy |-> "Pulumi"]),
                               e, "api-bucket", TRUE, TRUE, TRUE,
                               Some(Len(p.heap) + 1))} })

\* deploy_stack comparing the name without regard to case
deploy_stack_ignoring_case(p, e, stack_name) ==
    IF lower(stack_name) = "bootstrap"
    THEN deploy_bootstrap_stack(p, e)
    ELSE deploy_application_stack(p, e, stack_name)

deploy_stack(p, e, stack_name) ==
    IF stack_name = "bootstrap"
    THEN deploy_bootstrap_stack(p, e)
    ELSE deploy_application_stack(p, e, stack_name)

-----------------------------------------------------------------------------
(* The stack program and the storage functions as state machines *)

StackNames == {"bootstrap", "Bootstrap", "BOOTSTRAP", "bootstrap-2", "dev", "prod", ""}

\* what pulumi.get_stack(), aws.get_caller_identity() and aws.get_region()
\* answer when the stack program runs
StackEnvs ==
    [stack : StackNames,
     account_id : {"123456789012", "210987654321"},
     region : {"us-west-2", "eu-west-2"}]

\* str() of a resource object names its class and its address in memory
Addresses == {"0x7f3a5c1d2e80", "0x7f3a5c1d2f10"}
BucketRepr(address) == "<pulumi_aws.s3.bucket.Bucket object at " \o address \o ">"

\* all of the program state but the two logs of calls
SetProgram(p) ==
    /\ SetWorld(p)
    /\ declared' = p.declared
    /\ heap' = p.heap
    /\ exports' = p.exports

\* __main__: deploy_stack(_config.stack_name), a statement of the module, which
\* runs once when the engine loads the program
DeployStack ==
    /\ calls = <<>>
    /\ \E e \in StackEnvs :
       \E c \in {_ensure_initialized(config, e)} :
       \E p \in {deploy_stack([Program EXCEPT !.config = c], e, Value(c._stack_name))} :
       \E composed \in {Len(p.apis) > Len(apis)} :
          /\ SetProgram(p)
          /\ calls' = Append(calls, [NoStackCall EXCEPT
                                        !.fn = "deploy_stack",
                                        !.stack_name = Value(c._stack_name),
                                        !.n_before = Len(declared),
                                        !.n_after = Len(p.declared)])
          /\ passed' = IF composed THEN Append(passed, <<"ANY", "ANY">>) ELSE passed
          /\ last' = IF composed
                     THEN [NoCall EXCEPT !.n = last.n + 1,
                                         !.op = "create_lambda_rest_api",
                                         !.self = Len(p.apis),
                                         !.enable_proxy_route = TRUE,
                                         !.enable_root_route = TRUE,
                                         !.before = Before(0),
                                         !.ret = Some([api |-> Len(p.apis),
                                                       stage |-> Len(p.stages),
                                                       endpoint_url |->
                                                           p.exports[Len(p.exports) - 3]
                                                               .value.value])]
                     ELSE last
    /\ UNCHANGED <<synth, OtherVars>>

\* the engine runs the callback that writes the usage instructions
RunExportApply ==
    /\ \E i \in DOMAIN exports, address \in Addresses :
          /\ exports[i].value.kind = "Output"
          /\ "state" \in DOMAIN exports[i].value
          /\ exports[i].value.state = "pending"
          /\ exports' = [exports EXCEPT ![i].value =
                            [@ EXCEPT !.state = "resolved",
                                      !.value = Some(UsageInstructions(BucketRepr(address)))]]
    /\ UNCHANGED <<ApiVars, PolicyVars, declared, calls, OtherVars>>

NextStack ==
    \/ DeployStack
    \/ RunApply
    \/ RunExportApply

MaxBuckets == 2

BucketPrefixes == {"", "app1", "app2"}

BucketTags ==
    {None, Some(EmptyDict),
     Some([Path |-> "/app/component", Version |-> "v1.2.3-beta",
           Description |-> "This has spaces and punctuation!"])}

\* a caller makes a bucket, with no tags or with a dict of its own; given is
\* what the dict held when the call was made
CreateS3Bucket ==
    /\ Len(calls) < MaxBuckets
    /\ \E e \in Envs, name_prefix \in BucketPrefixes,
          versioning \in BOOLEAN, encryption \in BOOLEAN,
          public_access_block \in BOOLEAN, given \in BucketTags :
       \E tags \in {IF IsNone(given) THEN None ELSE Some(Len(heap) + 1)} :
       \E p \in {create_s3_bucket(IF IsNone(given) THEN Program
                                  ELSE Alloc(Program, Value(given)),
                                  e, name_prefix, versioning, encryption,
                                  public_access_block, tags)} :
          /\ SetProgram(p)
          /\ calls' = Append(calls, [NoStackCall EXCEPT
                                        !.fn = "create_s3_bucket",
                                        !.name_prefix = name_prefix,
                                        !.versioning = versioning,
                                        !.encryption = encryption,
                                        !.public_access_block = public_access_block,
                                        !.tags = tags,
                                        !.given = given,
                                        !.n_before = Len(declared),
                                        !.n_after = Len(p.declared),
                                        !.ret = p.ret])
    /\ UNCHANGED <<passed, last, synth, OtherVars>>

NextStorage ==
    \/ CreateS3Bucket

-----------------------------------------------------------------------------
(* The earlier storage module (src/common/s3.py).  Its enable_* functions   *)
(* declare the same resources as those of infrastructure/common/s3.py.      *)

\* what the module looked up when it was imported
current == [account_id |-> "123456789012"]
region == [name |-> "us-west-2"]

\* d[k] = v on a dict held as its items in insertion order: a key already
\* there keeps its place and takes the new value
RECURSIVE ItemSet(_, _, _)
ItemSet(items, k, v) ==
    IF items = <<>> THEN << <<k, v>> >>
    ELSE IF Head(items)[1] = k THEN << <<k, v>> >> \o Tail(items)
    ELSE << Head(items) >> \o ItemSet(Tail(items), k, v)

\* the dict display {k1: v1, k2: v2, ...}
RECURSIVE DictDisplay(_)
DictDisplay(pairs) ==
    IF pairs = <<>> THEN <<>>
    ELSE ItemSet(DictDisplay(SubSeq(pairs, 1, Len(pairs) - 1)),
                 pairs[Len(pairs)][1], pairs[Len(pairs)][2])

\* config_func(bucket, name_prefix)
CallConfigFunc(p, config_func, bucket, name_prefix) ==
    CASE config_func = "enable_versioning" -> enable_versioning(p, bucket, name_prefix)
      [] config_func = "enable_encryption" -> enable_encryption(p, bucket, name_prefix)
      [] config_func = "enable_public_access_block" ->
             enable_public_access_block(p, bucket, name_prefix)

\* for enabled, config_func in configurations.items(): if enabled: ...
RECURSIVE ForEachConfiguration(_, _, _, _)
ForEachConfiguration(p, items, bucket, name_prefix) ==
    IF items = <<>> THEN p
    ELSE ForEachConfiguration(
             IF Head(items)[1]
             THEN CallConfigFunc(p, Head(items)[2], bucket, name_prefix)
             ELSE p,
             Tail(items), bucket, name_prefix)

\* src/common/s3.py create_s3_bucket: returns the bucket
src_common_s3_create_s3_bucket(p, name_prefix, versioning, encryption, public_access, tags) ==
    LET bucket_name == name_prefix \o "-" \o current.account_id \o "-" \o region.name
        p1 == Declare(p, [type |-> "aws:s3/bucket:Bucket",
                          name |-> name_prefix,
                          bucket |-> bucket_name,
                          tags |-> Deref(p.heap, tags)])
        bucket == Value(p1.ret)
        configurations ==
            DictDisplay(<< <<versioning, "enable_versioning">>,
                           <<encryption, "enable_encryption">>,
                           <<public_access, "enable_public_access_block">> >>)
        p2 == ForEachConfiguration(p1, configurations, bucket, name_prefix)
    IN [p2 EXCEPT !.ret = Some(bucket)]

\* a caller makes a bucket with the earlier module
EarlierCreateS3Bucket ==
    /\ Len(calls) < MaxBuckets
    /\ \E name_prefix \in BucketPrefixes,
          versioning \in BOOLEAN, encryption \in BOOLEAN,
          public_access \in BOOLEAN, given \in BucketTags :
       \E tags \in {IF IsNone(given) THEN None ELSE Some(Len(heap) + 1)} :
       \E p \in {src_common_s3_create_s3_bucket(
                     IF IsNone(given) THEN Program ELSE Alloc(Program, Value(given)),
                     name_prefix, versioning, encryption, public_access, tags)} :
          /\ SetProgram(p)
          /\ calls' = Append(calls, [NoStackCall EXCEPT
                                        !.fn = "src.common.s3.create_s3_bucket",
                                        !.name_prefix = name_prefix,
                                        !.versioning = versioning,
                                        !.encryption = encryption,
                                        !.public_access_block = public_access,
                                        !.tags = tags,
                                        !.given = given,
                                        !.n_before = Len(declared),
                                        !.n_after = Len(p.declared),
                                        !.ret = p.ret])
    /\ UNCHANGED <<passed, last, synth, OtherVars>>

NextEarlierStorage ==
    \/ EarlierCreateS3Bucket

-----------------------------------------------------------------------------
(* The policy pack (policies/python/policies.py) *)

\* the Python values a resource's tags property is given here: kind is the
\* value's type, and the field of that type holds the value
PyNone == [kind |-> "NoneType", str |-> "", dict |-> EmptyDict, list |-> <<>>]
PyDict(d) == [PyNone EXCEPT !.kind = "dict", !.dict = d]
PyStr(s) == [PyNone EXCEPT !.kind = "str", !.str = s]
PyList(l) == [PyNone EXCEPT !.kind = "list", !.list = l]

\* bool(v)
Truthy(v) ==
    CASE v.kind = "NoneType" -> FALSE
      [] v.kind = "dict" -> DOMAIN v.dict # {}
      [] v.kind = "str" -> v.str # ""
      [] v.kind = "list" -> v.list # <<>>

\* isinstance(v, Mapping)
IsMapping(v) == v.kind = "dict"

NotAMapping == "Expected tags to be a mapping"
NoManagedByTag == "Resource should include a 'ManagedBy' tag to denote ownership."

\* ensure_managed_by_tag accepting any tags that are not empty
ensure_any_tag(props) ==
    LET tags == IF "tags" \in DOMAIN props /\ Truthy(props.tags)
                THEN props.tags
                ELSE PyDict(EmptyDict)
    IN IF ~IsMapping(tags)
       THEN Some(NotAMapping)
       ELSE IF DOMAIN tags.dict = {}
            THEN Some(NoManagedByTag)
            ELSE None

\* returns None or Some(message)
ensure_managed_by_tag(props) ==
    LET tags == IF "tags" \in DOMAIN props /\ Truthy(props.tags)
                THEN props.tags
                ELSE PyDict(EmptyDict)
    IN IF ~IsMapping(tags)
       THEN Some(NotAMapping)
       ELSE IF "ManagedBy" \notin DOMAIN tags.dict
            THEN Some(NoManagedByTag)
            ELSE None

\* the messages the validator hands to report
_s3_managed_by_tag_validator(resource_type, props) ==
    IF resource_type # "aws:s3/bucket:Bucket"
    THEN <<>>
    ELSE LET message == ensure_managed_by_tag(props)
         IN IF ~IsNone(message) /\ Value(message) # ""
            THEN << Value(message) >>
            ELSE <<>>

MaxValidations == 2

\* the properties of the resources validated
PackProps ==
    {[bucket |-> "b"],
     [bucket |-> "b", tags |-> PyNone],
     [bucket |-> "b", tags |-> PyDict(EmptyDict)],
     [bucket |-> "b", tags |-> PyDict([Owner |-> "Team"])],
     [bucket |-> "b", tags |-> PyDict([ManagedBy |-> "Pulumi"])],
     [bucket |-> "b", tags |-> PyDict([ManagedBy |-> "", Owner |-> "Team"])],
     [bucket |-> "b", tags |-> PyDict([managedby |-> "Pulumi"])],
     [bucket |-> "b", tags |-> PyStr("")],
     [bucket |-> "b", tags |-> PyStr("ManagedBy")],
     [bucket |-> "b", tags |-> PyList(<<>>)],
     [bucket |-> "b", tags |-> PyList(<<"ManagedBy">>)]}

PackResourceTypes == {"aws:s3/bucket:Bucket", "aws:dynamodb/table:Table"}

\* PulumiTestMocks()
NewPulumiTestMocks == [created_resources |-> <<>>, resource_outputs |-> EmptyDict]

InitOther ==
    /\ validations = <<>>
    /\ accesses = <<>>
    /\ _test_mocks = NewPulumiTestMocks
    /\ mock_calls = <<>>
    /\ routes = <<>>

\* a caller asks for the message of a resource's properties
EnsureManagedByTag ==
    /\ Len(validations) < MaxValidations
    /\ \E props \in PackProps :
          validations' = Append(validations,
                                [fn |-> "ensure_managed_by_tag",
                                 resource_type |-> "",
                                 props |-> props,
                                 ret |-> ensure_managed_by_tag(props),
                                 reported |-> <<>>])
    /\ UNCHANGED <<ApiVars, PolicyVars, StackVars, accesses, _test_mocks, mock_calls, routes>>

\* the engine validates a resource of the stack
ValidateResource ==
    /\ Len(validations) < MaxValidations
    /\ \E resource_type \in PackResourceTypes, props \in PackProps :
          validations' = Append(validations,
                                [fn |-> "_s3_managed_by_tag_validator",
                                 resource_type |-> resource_type,
                                 props |-> props,
                                 ret |-> None,
                                 reported |-> _s3_managed_by_tag_validator(resource_type,
                                                                             props)])
    /\ UNCHANGED <<ApiVars, PolicyVars, StackVars, accesses, _test_mocks, mock_calls, routes>>

NextPack ==
    \/ EnsureManagedByTag
    \/ ValidateResource

-----------------------------------------------------------------------------
(* The test backend (tests/common.py): PulumiTestMocks and its global       *)
(* instance _test_mocks.  A dict is a function from its keys; the values of *)
(* the inputs are passed through as they are.                               *)

\* inputs.get(key, default)
Get(inputs, key, default) == IF key \in DOMAIN inputs THEN inputs[key] ELSE default

\* outputs.update(updates)
Update(outputs, updates) ==
    [k \in DOMAIN outputs \cup DOMAIN updates |->
        IF k \in DOMAIN updates THEN updates[k] ELSE outputs[k]]

\* the branch of new_resource for the resource's type: what outputs.update
\* is called with
OutputsFor(typ, name, inputs) ==
    CASE typ = "aws:s3/bucket:Bucket" ->
             LET bucket_name == Get(inputs, "bucket", name)
             IN [id |-> bucket_name \o "-id",
                 arn |-> "arn:aws:s3:::" \o bucket_name,
                 bucket |-> bucket_name,
                 region |-> "us-west-2",
                 hosted_zone_id |-> "Z3AQBSTGFYJSTF"]
      [] typ = "aws:s3/bucketVersioning:BucketVersioning" ->
             [id |-> name \o "-id",
              bucket |-> Get(inputs, "bucket", None),
              versioning_configuration |-> Get(inputs, "versioning_configuration", EmptyDict)]
      [] typ = "aws:s3/bucketServerSideEncryptionConfiguration:BucketServerSideEncryptionConfiguration" ->
             [id |-> name \o "-id",
              bucket |-> Get(inputs, "bucket", None),
              rules |-> Get(inputs, "rules", <<>>)]
      [] typ = "aws:s3/bucketPublicAccessBlock:BucketPublicAccessBlock" ->
             [id |-> name \o "-id",
              bucket |-> Get(inputs, "bucket", None),
              block_public_acls |-> Get(inputs, "block_public_acls", TRUE),
              block_public_policy |-> Get(inputs, "block_public_policy", TRUE),
              ignore_public_acls |-> Get(inputs, "ignore_public_acls", TRUE),
              restrict_public_buckets |-> Get(inputs, "restrict_public_buckets", TRUE)]
      [] typ = "aws:dynamodb/table:Table" ->
             LET table_name == Get(inputs, "name", name)
             IN [id |-> table_name,
                 arn |-> "arn:aws:dynamodb:us-west-2:123456789012:table/" \o table_name,
                 name |-> table_name,
                 hash_key |-> Get(inputs, "hash_key", None),
                 range_key |-> Get(inputs, "range_key", None),
                 attributes |-> Get(inputs, "attributes", <<>>),
                 billing_mode |-> Get(inputs, "billing_mode", "PAY_PER_REQUEST")]
      [] typ = "aws:iam/role:Role" ->
             LET role_name == Get(inputs, "name", name)
             IN [id |-> role_name,
                 arn |-> "arn:aws:iam::123456789012:role/" \o role_name,
                 name |-> role_name,
                 assume_role_policy |-> Get(inputs, "assume_role_policy", None)]
      [] typ = "aws:iam/rolePolicy:RolePolicy" ->
             [id |-> name \o "-id",
              role |-> Get(inputs, "role", None),
              policy |-> Get(inputs, "policy", None)]
      [] typ = "aws:iam/rolePolicyAttachment:RolePolicyAttachment" ->
             [id |-> name \o "-id",
              role |-> Get(inputs, "role", None),
              policy_arn |-> Get(inputs, "policy_arn", None)]
      [] typ = "aws:lambda/function:Function" ->
             LET function_name == Get(inputs, "function_name", name)
             IN [id |-> function_name,
                 arn |-> "arn:aws:lambda:us-west-2:123456789012:function:" \o function_name,
                 function_name |-> function_name,
                 runtime |-> Get(inputs, "runtime", "python3.13"),
                 handler |-> Get(inputs, "handler", None),
                 role |-> Get(inputs, "role", None),
                 invoke_arn |-> InvokeArn(function_name)]
      [] typ = "aws:apigateway/restApi:RestApi" ->
             LET api_name == Get(inputs, "name", name)
             IN [id |-> api_name \o "-api-id",
                 name |-> api_name,
                 description |-> Get(inputs, "description", None),
                 root_resource_id |-> api_name \o "-root-id",
                 execution_arn |-> "arn:aws:execute-api:us-west-2:123456789012:"
                                       \o api_name \o "-api-id"]
      [] typ = "aws:apigateway/resource:Resource" ->
             [id |-> name \o "-resource-id",
              rest_api |-> Get(inputs, "rest_api", None),
              parent_id |-> Get(inputs, "parent_id", None),
              path_part |-> Get(inputs, "path_part", None),
              path |-> Get(inputs, "path_part", "")]
      [] typ = "aws:apigateway/method:Method" ->
             [id |-> name \o "-method-id",
              rest_api |-> Get(inputs, "rest_api", None),
              resource_id |-> Get(inputs, "resource_id", None),
              http_method |-> Get(inputs, "http_method", None),
              authorization |-> Get(inputs, "authorization", "NONE")]
      [] typ = "aws:apigateway/integration:Integration" ->
             [id |-> name \o "-integration-id",
              rest_api |-> Get(inputs, "rest_api", None),
              resource_id |-> Get(inputs, "resource_id", None),
              http_method |-> Get(inputs, "http_method", None),
              integration_http_method |-> Get(inputs, "integration_http_method", None),
              type |-> Get(inputs, "type", None),
              uri |-> Get(inputs, "uri", None)]
      [] typ = "aws:apigateway/deployment:Deployment" ->
             [id |-> name \o "-deployment-id",
              rest_api |-> Get(inputs, "rest_api", None),
              triggers |-> Get(inputs, "triggers", EmptyDict)]
      [] typ = "aws:apigateway/stage:Stage" ->
             LET stage_name == Get(inputs, "stage_name", name)
                 rest_api_id == Get(inputs, "rest_api", "mock-api-id")
             IN [id |-> rest_api_id \o "/" \o stage_name,
                 rest_api |-> rest_api_id,
                 deployment |-> Get(inputs, "deployment", None),
                 stage_name |-> stage_name,
                 invoke_url |-> "https://" \o rest_api_id
                                    \o ".execute-api.us-west-2.amazonaws.com/" \o stage_name]
      [] typ = "aws:lambda/permission:Permission" ->
             [id |-> name \o "-permission-id",
              function_name |-> Get(inputs, "function_name", None),
              action |-> Get(inputs, "action", "lambda:InvokeFunction"),
              principal |-> Get(inputs, "principal", None),
              source_arn |-> Get(inputs, "source_arn", None)]
      [] OTHER ->
             [id |-> name \o "-id"]

\* the outcome of a method of the mocks: the object after it and what it returned
Mocked(mocks, ret) == [mocks |-> mocks, ret |-> ret]

\* new_resource making its outputs from the updates alone
new_resource_without_inputs(mocks, typ, name, inputs) ==
    LET outputs == OutputsFor(typ, name, inputs)
    IN Mocked([created_resources |-> Append(mocks.created_resources, typ),
               resource_outputs |-> DictSet(mocks.resource_outputs, name, outputs)],
              [id |-> name \o "-id", outputs |-> outputs])

\* new_resource recording the resource's name
new_resource_tracking_names(mocks, typ, name, inputs) ==
    LET outputs == Update(inputs, OutputsFor(typ, name, inputs))
    IN Mocked([created_resources |-> Append(mocks.created_resources, name),
               resource_outputs |-> DictSet(mocks.resource_outputs, name, outputs)],
              [id |-> name \o "-id", outputs |-> outputs])

\* returns [f"{args.name}-id", outputs]
new_resource(mocks, typ, name, inputs) ==
    LET outputs == Update(inputs, OutputsFor(typ, name, inputs))
    IN Mocked([created_resources |-> Append(mocks.created_resources, typ),
               resource_outputs |-> DictSet(mocks.resource_outputs, name, outputs)],
              [id |-> name \o "-id", outputs |-> outputs])

reset_tracking(mocks) ==
    Mocked([created_resources |-> <<>>, resource_outputs |-> EmptyDict], None)

\* self.created_resources.count(resource_type)
count_resources_of_type(mocks, resource_type) ==
    Cardinality({ i \in DOMAIN mocks.created_resources :
                      mocks.created_resources[i] = resource_type })

\* resets the global instance, hands it to the engine and returns it
setup_pulumi_mocks(mocks) == Mocked(reset_tracking(mocks).mocks, "_test_mocks")

MaxMockCalls == 3

\* the resources the engine registers: type, name and inputs
MockResourceArgs ==
    << [typ |-> "aws:s3/bucket:Bucket", name |-> "app1-bucket",
        inputs |-> [bucket |-> "app1-123456789012-us-west-2", forceDestroy |-> "true"]],
       [typ |-> "aws:s3/bucket:Bucket", name |-> "plain",
        inputs |-> EmptyDict],
       [typ |-> "aws:dynamodb/table:Table", name |-> "api-table",
        inputs |-> [name |-> "api-table-123456789012", hash_key |-> "id",
                    tags |-> [Environment |-> "dev"]]],
       [typ |-> "aws:apigateway/stage:Stage", name |-> "api-stage",
        inputs |-> [rest_api |-> "api-api-id", stageName |-> "dev"]],
       [typ |-> "aws:sqs/queue:Queue", name |-> "jobs",
        inputs |-> [fifoQueue |-> TRUE, id |-> "given"]] >>

\* the types a caller counts
CountedTypes ==
    {"aws:s3/bucket:Bucket", "aws:dynamodb/table:Table", "aws:sqs/queue:Queue",
     "aws:iam/role:Role"}

NoMockCall ==
    [fn |-> "", typ |-> "", name |-> "", inputs |-> EmptyDict, ret |-> None]

\* a call's effect on _test_mocks and its entry in the log
MockCalled(out, call) ==
    /\ _test_mocks' = out.mocks
    /\ mock_calls' = Append(mock_calls, [call EXCEPT !.ret = out.ret])
    /\ UNCHANGED <<ApiVars, PolicyVars, StackVars, validations, accesses, routes>>

\* the engine registers a resource
NewResource ==
    /\ Len(mock_calls) < MaxMockCalls
    /\ \E i \in DOMAIN MockResourceArgs :
          LET args == MockResourceArgs[i]
          IN MockCalled(new_resource(_test_mocks, args.typ, args.name, args.inputs),
                        [NoMockCall EXCEPT !.fn = "new_resource", !.typ = args.typ,
                                           !.name = args.name, !.inputs = args.inputs])

ResetTracking ==
    /\ Len(mock_calls) < MaxMockCalls
    /\ MockCalled(reset_tracking(_test_mocks), [NoMockCall EXCEPT !.fn = "reset_tracking"])

SetupPulumiMocks ==
    /\ Len(mock_calls) < MaxMockCalls
    /\ MockCalled(setup_pulumi_mocks(_test_mocks),
                  [NoMockCall EXCEPT !.fn = "setup_pulumi_mocks"])

CountResourcesOfType ==
    /\ Len(mock_calls) < MaxMockCalls
    /\ \E resource_type \in CountedTypes :
          MockCalled(Mocked(_test_mocks, count_resources_of_type(_test_mocks, resource_type)),
                     [NoMockCall EXCEPT !.fn = "count_resources_of_type",
                                        !.typ = resource_type])

NextMocks ==
    \/ NewResource
    \/ ResetTracking
    \/ SetupPulumiMocks
    \/ CountResourcesOfType

-----------------------------------------------------------------------------
(* The configuration singleton's accessors (common/config.py) when a        *)
(* lookup may raise.  get_stack reads the engine's settings;                *)
(* get_caller_identity and get_region are provider invokes.  A raise leaves *)
(* _ensure_initialized at that statement: the assignments before it stay.   *)

\* the lookup that raises in a call, "" when all three answer
Failures == {"", "get_stack", "get_caller_identity", "get_region"}

\* _ensure_initialized: the object after it, whether it raised, and the
\* lookups that answered, in order
EnsureInitialized(c, e, fails) ==
    IF ~IsNone(c._stack_name)
    THEN [config |-> c, raised |-> FALSE, lookups |-> <<>>]
    ELSE IF fails = "get_stack"
    THEN [config |-> c, raised |-> TRUE, lookups |-> <<>>]
    ELSE IF fails = "get_caller_identity"
    THEN [config |-> [c EXCEPT !._stack_name = Some(e.stack)],
          raised |-> TRUE, lookups |-> <<"get_stack">>]
    ELSE IF fails = "get_region"
    THEN [config |-> [c EXCEPT !._stack_name = Some(e.stack),
                               !._current = Some([account_id |-> e.account_id])],
          raised |-> TRUE, lookups |-> <<"get_stack", "get_caller_identity">>]
    ELSE [config |-> _ensure_initialized(c, e),
          raised |-> FALSE, lookups |-> <<"get_stack", "get_caller_identity", "get_region">>]

\* the dict generate_default_tags builds once its assertions passed
generate_default_tags(c, environment, purpose) ==
    LET tags == [ManagedBy |-> "Pulumi",
                 Stack |-> Value(c._stack_name),
                 Region |-> Value(c._region).name]
        with_environment ==
            IF ~IsNone(environment) /\ Value(environment) # ""
            THEN DictSet(tags, "Environment", Value(environment)) ELSE tags
    IN IF ~IsNone(purpose) /\ Value(purpose) # ""
       THEN DictSet(with_environment, "Purpose", Value(purpose)) ELSE with_environment

\* the fields an accessor asserts to be not None
Asserted(fn) ==
    CASE fn = "stack_name" -> {"_stack_name"}
      [] fn \in {"account_id", "aws_caller_identity"} -> {"_current"}
      [] fn \in {"region_name", "aws_region"} -> {"_region"}
      [] fn = "generate_default_tags" -> {"_stack_name", "_region"}

\* what an accessor returns once its assertions passed
AccessorReturn(fn, c, environment, purpose) ==
    CASE fn = "stack_name" -> Value(c._stack_name)
      [] fn = "account_id" -> Value(c._current).account_id
      [] fn = "region_name" -> Value(c._region).name
      [] fn = "aws_caller_identity" -> Value(c._current)
      [] fn = "aws_region" -> Value(c._region)
      [] fn = "generate_default_tags" -> generate_default_tags(c, environment, purpose)

MaxAccesses == 3

TagEnvironments == {None, Some(""), Some("dev")}
TagPurposes == {None, Some("api-storage")}

\* an accessor of _config is called: _ensure_initialized, the assertions,
\* the return
Access(fn, environment, purpose) ==
    /\ \E e \in Envs, fails \in Failures :
          \E init \in {EnsureInitialized(config, e, fails)} :
             /\ config' = init.config
             /\ accesses' = Append(accesses,
                    [fn |-> fn,
                     lookups |-> init.lookups,
                     outcome |-> IF init.raised THEN "raises"
                                 ELSE IF \E f \in Asserted(fn) : IsNone(init.config[f])
                                 THEN "AssertionError"
                                 ELSE "returns",
                     ret |-> IF init.raised \/ \E f \in Asserted(fn) : IsNone(init.config[f])
                             THEN None
                             ELSE Some(AccessorReturn(fn, init.config, environment, purpose))])
    /\ UNCHANGED <<apis, rest_apis, permissions, resources, methods, integrations,
                   deployments, stages, passed, last>>
    /\ UNCHANGED <<PolicyVars, StackVars, validations, _test_mocks, mock_calls, routes>>

StackName ==
    /\ Len(accesses) < MaxAccesses
    /\ Access("stack_name", None, None)

AccountId ==
    /\ Len(accesses) < MaxAccesses
    /\ Access("account_id", None, None)

RegionName ==
    /\ Len(accesses) < MaxAccesses
    /\ Access("region_name", None, None)

AwsCallerIdentity ==
    /\ Len(accesses) < MaxAccesses
    /\ Access("aws_caller_identity", None, None)

AwsRegion ==
    /\ Len(accesses) < MaxAccesses
    /\ Access("aws_region", None, None)

GenerateDefaultTags ==
    /\ Len(accesses) < MaxAccesses
    /\ \E environment \in TagEnvironments, purpose \in TagPurposes :
          Access("generate_default_tags", environment, purpose)

NextConfig ==
    \/ StackName
    \/ AccountId
    \/ RegionName
    \/ AwsCallerIdentity
    \/ AwsRegion
    \/ GenerateDefaultTags

-----------------------------------------------------------------------------
(* Specifications: the API composer, and the statement synthesizer *)

Init ==
    /\ InitApi
    /\ InitPolicy
    /\ InitStack
    /\ InitOther

Next == NextApi

Spec == Init /\ [][Next]_vars

SpecPolicy == Init /\ [][NextPolicy]_vars

\* the synthesizer with a caller that changes the lists it was returned
SpecCaller == Init /\ [][NextCaller]_vars

\* the role policy functions and the engine's callbacks
SpecIam == Init /\ [][NextIam]_vars

\* the stack program and the engine's callbacks
SpecStack == Init /\ [][NextStack]_vars

\* callers of the storage functions
SpecStorage == Init /\ [][NextStorage]_vars

\* the policy pack's check and its callers
SpecPack == Init /\ [][NextPack]_vars

\* callers of the earlier storage module
SpecEarlierStorage == Init /\ [][NextEarlierStorage]_vars

\* the test backend, the engine that registers resources with it and the
\* tests that ask it what was registered
SpecMocks == Init /\ [][NextMocks]_vars

\* callers of the configuration singleton's accessors, in an environment
\* whose lookups may raise
SpecConfig == Init /\ [][NextConfig]_vars

\* programs that construct APIs and add routes for several paths and methods
SpecRoutes == Init /\ [][NextRoutes]_vars

-----------------------------------------------------------------------------
(* Properties of the API composer *)

AddOps == {"add_root_route", "add_proxy_route"}

\* the dependency set of a Deployment: the integrations in the list its
\* depends_on option holds
DependsOn(d) == apis[d.depends_on.list_of]._integrations

\* deploy() declares one Deployment and one Stage together: the k-th Stage
\* belongs to the k-th Deployment
DeploymentOfStage(k) == deployments[k]
StageOwner(k) == DeploymentOfStage(k).depends_on.list_of

HttpMethodsOf(tracked) == [i \in DOMAIN tracked |-> integrations[tracked[i]].http_method]

\* C1: add_root_route or add_proxy_route called after deploy() fails with
\* InvalidState and registers no new method or integration.
C1_AddAfterDeployFails ==
    (last.op \in AddOps /\ last.before.deployed)
        => /\ ~IsNone(last.raised)
           /\ Value(last.raised) = "InvalidState"
           /\ Len(methods) = last.before.n_methods
           /\ Len(integrations) = last.before.n_integrations

\* C2: the dependency set of the Deployment that deploy() created holds every
\* integration registered before that deploy() call and none registered after
\* it: a call that is not the deploy() itself leaves every existing Deployment's
\* dependency set as it was.
C2_DependsOnFixedAtDeploy ==
    /\ (last.op = "deploy")
           => /\ DependsOn(deployments[Len(deployments)]) = apis[last.self]._integrations
              /\ Len(DependsOn(deployments[Len(deployments)])) = last.before.tracked
    /\ \A k \in DOMAIN deployments :
           (last.op \in AddOps /\ k <= last.before.n_deployments
                /\ deployments[k].depends_on.list_of = last.self)
               => Len(DependsOn(deployments[k])) = last.before.tracked

\* C3: finalization occurs exactly once: no LambdaRestApi object ever has a
\* second Deployment or a second Stage declared for it.
C3_DeployOnce ==
    \A self \in DOMAIN apis :
        /\ Cardinality(DeploymentsOf(self)) <= 1
        /\ Cardinality({k \in DOMAIN stages : StageOwner(k) = self}) <= 1

\* C4: add_root_route or add_proxy_route called with an empty methods list
\* registers exactly one method and integration, with http_method ANY.
C4_EmptyMethodsDefaultsToAny ==
    (last.op \in AddOps /\ last.methods = Some(<<>>))
        => /\ Len(methods) = last.before.n_methods + 1
           /\ Len(integrations) = last.before.n_integrations + 1
           /\ Len(apis[last.self]._integrations) = last.before.tracked + 1
           /\ methods[Len(methods)].http_method = "ANY"
           /\ integrations[Len(integrations)].http_method = "ANY"

\* C5: every LambdaRestApi object tracks exactly one integration per element
\* of the methods lists its routes were added with, in registration order, and
\* one method and one integration is declared for each.
C5_OneIntegrationPerMethod ==
    /\ \A self \in DOMAIN apis : HttpMethodsOf(apis[self]._integrations) = passed[self]
    /\ \A self \in DOMAIN apis : \A i, j \in DOMAIN apis[self]._integrations :
           i < j => apis[self]._integrations[i] < apis[self]._integrations[j]
    /\ \A self, other \in DOMAIN apis : \A i \in DOMAIN apis[self]._integrations :
           \A j \in DOMAIN apis[other]._integrations :
               apis[self]._integrations[i] = apis[other]._integrations[j]
                   => (self = other /\ i = j)
    /\ Len(methods) = Len(integrations)
    /\ \A i \in DOMAIN integrations :
           \E self \in DOMAIN apis : \E j \in DOMAIN apis[self]._integrations :
               apis[self]._integrations[j] = i
    /\ \A i \in DOMAIN integrations : methods[i].http_method = integrations[i].http_method

C5_Witness ==
    \E self \in DOMAIN apis :
        /\ passed[self] = <<"GET", "POST", "ANY">>
        /\ Len(apis[self]._integrations) = 3

\* C6: deploy() is never performed, and create_lambda_rest_api never returns
\* a stage, for a LambdaRestApi on which no route has been added.
C6_DeployNeedsRoute ==
    (last.op \in {"deploy", "create_lambda_rest_api"})
        => Len(apis[last.self]._integrations) >= 1

\* C7: every LambdaRestApi object has exactly one permission grant of its own,
\* declared by its constructor: lambda:InvokeFunction for the principal
\* apigateway.amazonaws.com on the Lambda function it was given; no other call
\* declares a permission.
C7_OnePermissionPerApi ==
    /\ Len(permissions) = Len(apis)
    /\ \A self \in DOMAIN apis :
           /\ apis[self].lambda_permission = self
           /\ permissions[self].action = "lambda:InvokeFunction"
           /\ permissions[self].principal = "apigateway.amazonaws.com"
           /\ permissions[self].function = apis[self].lambda_function.name
           /\ permissions[self].name = apis[self].name \o "-api-lambda-permission"
    /\ (last.op \notin {"", "__init__", "create_lambda_rest_api"})
           => Len(permissions) = last.before.n_permissions
    /\ (last.op \in {"__init__", "create_lambda_rest_api"})
           => Len(permissions) = last.before.n_permissions + 1

C7_Witness ==
    /\ Len(apis) = 2
    /\ apis[1].lambda_function # apis[2].lambda_function
    /\ last.op = "deploy"
    /\ last.n = 3

OneIf(b) == IF b THEN 1 ELSE 0

\* C8: the deployment of the stage create_lambda_rest_api returns depends on
\* exactly one integration per enabled route flag: on exactly 2 for
\* add_root_route(["ANY"]), add_proxy_route("{proxy+}", ["ANY"]), deploy().
C8_OneIntegrationPerFlag ==
    (last.op = "create_lambda_rest_api")
        => LET r == Value(last.ret)
               d == DeploymentOfStage(r.stage)
           IN /\ d.depends_on.list_of = r.api
              /\ Len(DependsOn(d)) = OneIf(last.enable_root_route)
                                     + OneIf(last.enable_proxy_route)
              /\ \A i \in DOMAIN DependsOn(d) :
                     /\ integrations[DependsOn(d)[i]].http_method = "ANY"
                     /\ integrations[DependsOn(d)[i]].rest_api = d.rest_api

C8_Witness ==
    /\ last.op = "create_lambda_rest_api"
    /\ last.enable_root_route
    /\ last.enable_proxy_route
    /\ Len(DependsOn(DeploymentOfStage(Value(last.ret).stage))) = 2
    /\ Len(resources) = 1

\* C9: get_endpoint_url is evaluated only with the stage that deploy() of the
\* same LambdaRestApi produced, and returns "https://" + rest_api.id +
\* ".execute-api." + region + ".amazonaws.com/" + stage_name + "/" with
\* stage_name the stage label given at construction.
C9_EndpointUrlOfOwnStage ==
    (last.op = "get_endpoint_url")
        => /\ last.before.deployed
           /\ StageOwner(last.stage) = last.self
           /\ last.ret = Some("https://"
                              \o ResourceId(rest_apis[apis[last.self].rest_api].name)
                              \o ".execute-api." \o Value(config._region).name
                              \o ".amazonaws.com/" \o apis[last.self].stage_name \o "/")

-----------------------------------------------------------------------------
(* Properties of the statement synthesizer *)

Range(f) == {f[i] : i \in DOMAIN f}

\* the statements a synthesizer call produced: create_dynamodb_policy_statement
\* returns the single statement, create_s3_policy_statement a list
StatementsOf(call) ==
    IF call.fn = "create_dynamodb_policy_statement" THEN <<Value(call.value)>>
    ELSE Value(call.value)

TableOf(call) ==
    IF call.fn = "create_dynamodb_policy_statement" THEN DYNAMODB_POLICIES ELSE S3_POLICIES

Recognized(call) == HasKey(TableOf(call), call.access_level)

\* C10: for every recognized (kind, access_level) pair the synthesizer returns
\* a non-empty statement list whose union of actions equals the static table
\* entry for the pair, every statement with Effect Allow.
C10_StatementsCoverTableEntry ==
    \A c \in DOMAIN synth :
        Recognized(synth[c])
            => /\ IsNone(synth[c].raised)
               /\ ~IsNone(synth[c].ret)
               /\ StatementsOf(synth[c]) # <<>>
               /\ UNION {Range(st.Action) : st \in Range(StatementsOf(synth[c]))}
                      = Range(Lookup(TableOf(synth[c]), synth[c].access_level).actions)
               /\ \A st \in Range(StatementsOf(synth[c])) : st.Effect = "Allow"

C10_Witness ==
    /\ Len(synth) = 2
    /\ synth[1].fn = "create_s3_policy_statement"
    /\ synth[1].access_level = "full_access"
    /\ Len(StatementsOf(synth[1])) = 2
    /\ synth[2].fn = "create_dynamodb_policy_statement"
    /\ synth[2].access_level = "write_only"

S3Calls == {c \in DOMAIN synth : synth[c].fn = "create_s3_policy_statement"}
TableCalls == {c \in DOMAIN synth : synth[c].fn = "create_dynamodb_policy_statement"}

\* the actions of the table entry a call names
TierActions(call) == Lookup(TableOf(call), call.access_level).actions

IsItemLevel(action) == Contains(action, "Object")

\* C11: for a bucket with access_level full_access, read_only or write_only,
\* create_s3_policy_statement returns exactly two statements when the tier
\* holds both container-level and item-level actions, the first scoped to the
\* bucket identifier and the second to identifier + "/*", and an item-level
\* statement is always scoped to identifier + "/*"; read_only on
\* "arn:bucket/Y" gives ["s3:ListBucket"] on "arn:bucket/Y" and the three
\* object read actions on "arn:bucket/Y/*".
C11_TwoStatementsBucketThenObjects ==
    \A c \in S3Calls :
        LET call == synth[c]
        IN (call.access_level \in {"full_access", "read_only", "write_only"})
            => /\ ((\E a \in Range(TierActions(call)) : IsItemLevel(a))
                   /\ (\E a \in Range(TierActions(call)) : ~IsItemLevel(a)))
                      => /\ Len(StatementsOf(call)) = 2
                         /\ StatementsOf(call)[1].Resource = call.arn
                         /\ \A a \in Range(StatementsOf(call)[1].Action) : ~IsItemLevel(a)
                         /\ StatementsOf(call)[2].Resource = call.arn \o "/*"
               /\ \A st \in Range(StatementsOf(call)) :
                      (\E a \in Range(st.Action) : IsItemLevel(a))
                          => st.Resource = call.arn \o "/*"
               /\ (call.access_level = "read_only" /\ call.arn = "arn:bucket/Y")
                      => StatementsOf(call) =
                             << [Effect |-> "Allow", Action |-> <<"s3:ListBucket">>,
                                 Resource |-> "arn:bucket/Y"],
                                [Effect |-> "Allow",
                                 Action |-> <<"s3:GetObject", "s3:GetObjectVersion",
                                              "s3:GetObjectAcl">>,
                                 Resource |-> "arn:bucket/Y/*"] >>

C11_Witness ==
    \E c \in S3Calls :
        /\ synth[c].access_level = "read_only"
        /\ synth[c].arn = "arn:bucket/Y"
        /\ Len(StatementsOf(synth[c])) = 2
        /\ StatementsOf(synth[c])[2].Resource = "arn:bucket/Y/*"

\* C12: for a bucket with access_level list_only, create_s3_policy_statement
\* returns exactly one statement, and its Resource is the bucket identifier
\* unchanged.
C12_ListOnlyOneStatementOnBucket ==
    \A c \in S3Calls :
        (synth[c].access_level = "list_only")
            => /\ IsNone(synth[c].raised)
               /\ Len(StatementsOf(synth[c])) = 1
               /\ StatementsOf(synth[c])[1].Resource = synth[c].arn

C12_Witness ==
    \E c \in S3Calls :
        /\ synth[c].access_level = "list_only"
        /\ StatementsOf(synth[c])[1].Action = <<"s3:ListBucket">>
        /\ StatementsOf(synth[c])[1].Resource = "arn:bucket/Y"

\* C13: for a table and every recognized access level the synthesizer returns
\* exactly one statement, whose Resource is the table identifier unchanged;
\* for full_access on "arn:table/X" its actions are the 8 DynamoDB CRUD and
\* batch actions.
C13_TableOneStatementOnTable ==
    \A c \in TableCalls :
        Recognized(synth[c])
            => /\ IsNone(synth[c].raised)
               /\ Len(StatementsOf(synth[c])) = 1
               /\ StatementsOf(synth[c])[1].Resource = synth[c].arn
               /\ (synth[c].access_level = "full_access" /\ synth[c].arn = "arn:table/X")
                      => StatementsOf(synth[c])[1] =
                             [Effect |-> "Allow",
                              Action |-> << "dynamodb:PutItem", "dynamodb:GetItem",
                                            "dynamodb:UpdateItem", "dynamodb:DeleteItem",
                                            "dynamodb:Scan", "dynamodb:Query",
                                            "dynamodb:BatchGetItem",
                                            "dynamodb:BatchWriteItem" >>,
                              Resource |-> "arn:table/X"]

C13_Witness ==
    \E c \in TableCalls :
        /\ synth[c].access_level = "full_access"
        /\ synth[c].arn = "arn:table/X"
        /\ Len(StatementsOf(synth[c])[1].Action) = 8

StartsWith(s, prefix) == Len(s) >= Len(prefix) /\ SubSeq(s, 1, Len(prefix)) = prefix

\* C14: for an access_level that is not a key of the table of the resource
\* kind (list_only for a table included) the synthesizer raises an error whose
\* message carries the offending value and every valid access level, and
\* returns nothing.
C14_UnrecognizedLevelRaises ==
    \A c \in DOMAIN synth :
        (~Recognized(synth[c]))
            => /\ ~IsNone(synth[c].raised)
               /\ IsNone(synth[c].ret)
               /\ IsNone(synth[c].value)
               /\ StartsWith(Value(synth[c].raised).message,
                             "Invalid access level: " \o synth[c].access_level \o ".")
               /\ \A k \in Range(Keys(TableOf(synth[c]))) :
                      Contains(Value(synth[c].raised).message, "'" \o k \o "'")

C14_Witness ==
    /\ Len(synth) = 2
    /\ synth[1].fn = "create_dynamodb_policy_statement"
    /\ synth[1].access_level = "list_only"
    /\ ~IsNone(synth[1].raised)
    /\ synth[2].fn = "create_s3_policy_statement"
    /\ synth[2].access_level = "admin"
    /\ ~IsNone(synth[2].raised)

FromImportedTables(call) ==
    LET out == IF call.fn = "create_dynamodb_policy_statement"
               THEN create_dynamodb_policy_statement(ImportedHeap, call.arn, call.access_level)
               ELSE create_s3_policy_statement(ImportedHeap, call.arn, call.access_level)
    IN IF IsNone(out.ret) THEN None
       ELSE IF call.fn = "create_dynamodb_policy_statement"
            THEN Some(Contents(out.heap, Value(out.ret)))
            ELSE Some(ContentsOfAll(out.heap, Value(out.ret)))

\* C16: statements are made fresh by every call: no returned statement's
\* Action list is a list of the static tables or a list of another call's
\* result, so whatever a caller does to a returned Action list, the tables
\* hold what the module defines and every call returns what it returns from
\* the tables as defined.
C16_StatementsShareNothing ==
    /\ \A c \in DOMAIN synth : \A j \in DOMAIN StatementsReturned(synth[c]) :
           /\ StatementsReturned(synth[c])[j].Action \notin DOMAIN ImportedHeap
           /\ \A d \in DOMAIN synth : \A k \in DOMAIN StatementsReturned(synth[d]) :
                  (StatementsReturned(synth[c])[j].Action
                       = StatementsReturned(synth[d])[k].Action)
                      => (c = d /\ j = k)
    /\ \A a \in DOMAIN ImportedHeap : heap[a] = ImportedHeap[a]
    /\ \A c \in DOMAIN synth : synth[c].value = FromImportedTables(synth[c])

-----------------------------------------------------------------------------
(* Properties of the role policy functions *)

PolicyTableOf(call) ==
    IF call.fn = "create_dynamodb_policy" THEN DYNAMODB_POLICIES ELSE S3_POLICIES

\* C15: create_dynamodb_policy or create_s3_policy called with an
\* access_level that is not in the table of its resource kind fails with the
\* synthesizer's error and declares no RolePolicy, whether the ARN is a plain
\* string or an Output.
C15_SynthesisErrorDeclaresNothing ==
    \A c \in DOMAIN calls :
        (calls[c].fn \in {"create_dynamodb_policy", "create_s3_policy"}
             /\ ~HasKey(PolicyTableOf(calls[c]), calls[c].access_level))
            => /\ ~IsNone(calls[c].raised)
               /\ IsNone(calls[c].ret)
               /\ calls[c].n_after = calls[c].n_before

\* json.loads of a text made of objects, arrays and strings without escapes,
\* written with the separators ", " and ": ".  A parsed value is tagged:
\* "str" with the string, "list" with the elements, "dict" with the
\* <<key, value>> pairs in the order of the text.
RECURSIVE ParseString(_, _)
ParseString(s, acc) ==
    IF Head(s) = "\"" THEN [v |-> acc, rest |-> Tail(s)]
    ELSE ParseString(Tail(s), acc \o Head(s))

RECURSIVE ParseValue(_)
RECURSIVE ParseElements(_, _)
RECURSIVE ParseMembers(_, _)

ParseValue(s) ==
    IF Head(s) = "\""
    THEN LET r == ParseString(Tail(s), "")
         IN [v |-> [t |-> "str", v |-> r.v], rest |-> r.rest]
    ELSE IF Head(s) = "["
    THEN IF Head(Tail(s)) = "]"
         THEN [v |-> [t |-> "list", v |-> <<>>], rest |-> Tail(Tail(s))]
         ELSE ParseElements(Tail(s), <<>>)
    ELSE IF Head(Tail(s)) = "}"
         THEN [v |-> [t |-> "dict", v |-> <<>>], rest |-> Tail(Tail(s))]
         ELSE ParseMembers(Tail(s), <<>>)

ParseElements(s, acc) ==
    LET r == ParseValue(s)
    IN IF Head(r.rest) = "]"
       THEN [v |-> [t |-> "list", v |-> Append(acc, r.v)], rest |-> Tail(r.rest)]
       ELSE ParseElements(Tail(Tail(r.rest)), Append(acc, r.v))

ParseMembers(s, acc) ==
    LET key == ParseString(Tail(s), "")
        val == ParseValue(Tail(Tail(key.rest)))
    IN IF Head(val.rest) = "}"
       THEN [v |-> [t |-> "dict", v |-> Append(acc, <<key.v, val.v>>)],
             rest |-> Tail(val.rest)]
       ELSE ParseMembers(Tail(Tail(val.rest)), Append(acc, <<key.v, val.v>>))

json_loads(s) == ParseValue(s)

\* the parsed form of a policy document with the given statements
ParsedStatement(st) ==
    [t |-> "dict",
     v |-> << <<"Effect", [t |-> "str", v |-> st.Effect]>>,
              <<"Action", [t |-> "list",
                           v |-> [i \in DOMAIN st.Action |-> [t |-> "str", v |-> st.Action[i]]]]>>,
              <<"Resource", [t |-> "str", v |-> st.Resource]>> >>]

ParsedDocument(statements) ==
    [t |-> "dict",
     v |-> << <<"Version", [t |-> "str", v |-> "2012-10-17"]>>,
              <<"Statement", [t |-> "list",
                              v |-> [i \in DOMAIN statements |->
                                        ParsedStatement(statements[i])]]>> >>]

\* the statements the policy document of a call is to hold: those the caller
\* provided, or those the synthesizer makes for the call's identifier and
\* access level
StatementsFor(call) ==
    IF call.fn = "create_custom_policy" THEN call.policy_statements
    ELSE IF call.fn = "create_cloudwatch_logs_policy"
    THEN << [Effect |-> "Allow",
             Action |-> <<"logs:CreateLogGroup", "logs:CreateLogStream",
                          "logs:PutLogEvents">>,
             Resource |-> call.arn.value] >>
    ELSE LET synthesized ==
                 [fn |-> IF call.fn = "create_dynamodb_policy"
                         THEN "create_dynamodb_policy_statement"
                         ELSE "create_s3_policy_statement",
                  arn |-> call.arn.value, access_level |-> call.access_level]
         IN StatementsOf([fn |-> synthesized.fn, value |-> FromImportedTables(synthesized)])

\* the policy text of the RolePolicy a call declared, when it has one by now
HasPolicyText(call) ==
    /\ ~IsNone(call.ret)
    /\ \/ declared[Value(call.ret)].policy.kind = "str"
       \/ declared[Value(call.ret)].policy.state = "resolved"

PolicyText(call) ==
    IF declared[Value(call.ret)].policy.kind = "str"
    THEN declared[Value(call.ret)].policy.value
    ELSE Value(declared[Value(call.ret)].policy.value)

\* C18: the policy document of every RolePolicy that create_custom_policy,
\* create_dynamodb_policy or create_s3_policy declared is, once read back, an
\* object with Version "2012-10-17" followed by Statement, the list of exactly
\* the provided or synthesized statements in their order, and nothing after
\* it.
C18_DocumentHoldsStatementsInOrder ==
    \A c \in DOMAIN calls :
        HasPolicyText(calls[c])
            => json_loads(PolicyText(calls[c]))
                   = [v |-> ParsedDocument(StatementsFor(calls[c])), rest |-> ""]

C18_Witness ==
    /\ Len(calls) = 2
    /\ calls[1].fn = "create_custom_policy"
    /\ Len(calls[1].policy_statements) = 2
    /\ calls[1].policy_statements[1].Resource = "arn:table/X"
    /\ calls[2].fn = "create_s3_policy"
    /\ calls[2].arn.kind = "Output"
    /\ calls[2].access_level = "read_only"
    /\ HasPolicyText(calls[2])
    /\ Len(json_loads(PolicyText(calls[2])).v.v[2][2].v) = 2

\* the resources a call declared
DeclaredBy(call) ==
    { declared[i].name : i \in (call.n_before + 1)..call.n_after }

DeployStackCalls == { c \in Range(calls) : c.fn = "deploy_stack" }

\* the state bucket and the lock table are what the bootstrap branch declares,
\* the application's bucket, table, role and function what the other does
BootstrapRan(call) ==
    {"pulumi-state-bucket", "pulumi-state-lock"} \cap DeclaredBy(call) # {}
ApplicationRan(call) ==
    {"api-bucket-bucket", "api-table", "lambda-role", "api-lambda"}
        \cap DeclaredBy(call) # {}

\* C19: deploy_stack runs the bootstrap branch if and only if the stack name
\* is exactly "bootstrap", the application branch for every other name, and
\* never both or neither.
C19_BootstrapIffNameIsBootstrap ==
    \A c \in DeployStackCalls :
        /\ BootstrapRan(c) <=> c.stack_name = "bootstrap"
        /\ ApplicationRan(c) <=> c.stack_name # "bootstrap"
        /\ BootstrapRan(c) # ApplicationRan(c)

\* a name that differs from "bootstrap" only by case took the application branch
C19_Witness ==
    \E c \in DeployStackCalls :
        /\ c.stack_name = "Bootstrap"
        /\ {"api-bucket-bucket", "api-lambda"} \subseteq DeclaredBy(c)
        /\ "pulumi-state-bucket" \notin DeclaredBy(c)
S3BucketCalls == { c \in Range(calls) : c.fn = "create_s3_bucket" }

\* the name of the bucket a call returned
BucketNameOf(call) == declared[Value(call.ret).bucket].bucket

\* C20: create_s3_bucket names the bucket "{prefix}-{accountId}-{region}" from
\* the given prefix and the configured account id and region, for every
\* prefix including the empty one, so calls with different prefixes give
\* different names.
C20_BucketNameIsPrefixAccountRegion ==
    /\ \A c \in S3BucketCalls :
           BucketNameOf(c) = c.name_prefix \o "-" \o Value(config._current).account_id
                                 \o "-" \o Value(config._region).name
    /\ \A c1, c2 \in S3BucketCalls :
           c1.name_prefix # c2.name_prefix => BucketNameOf(c1) # BucketNameOf(c2)

\* a bucket of the empty prefix and a bucket of another prefix in one program
C20_Witness ==
    \E c1, c2 \in S3BucketCalls :
        /\ c1.name_prefix = ""
        /\ c2.name_prefix = "app1"
        /\ BucketNameOf(c1) = "-123456789012-eu-west-2"
        /\ BucketNameOf(c2) = "app1-123456789012-eu-west-2"
\* an optional resource of a call's S3BucketResources is there if and only if
\* flag says so, and when there it is a resource of the type the call declared
\* for the call's bucket
OptionalResourceIff(call, resource, flag, type) ==
    /\ ~IsNone(resource) <=> flag
    /\ ~IsNone(resource) =>
           /\ Value(resource) \in (call.n_before + 1)..call.n_after
           /\ declared[Value(resource)].type = type
           /\ declared[Value(resource)].bucket
                  = ResourceId(declared[Value(call.ret).bucket].name)

\* the number of resources the flags of a call ask for
Asked(flag) == IF flag THEN 1 ELSE 0

\* C21: for every combination of the three flags create_s3_bucket creates the
\* bucket, and each optional resource of the returned S3BucketResources is
\* not None if and only if its own flag is True, whatever the other two are.
C21_OptionalResourceIffOwnFlag ==
    \A c \in S3BucketCalls :
        /\ ~IsNone(c.ret)
        /\ Value(c.ret).bucket = c.n_before + 1
        /\ declared[Value(c.ret).bucket].type = "aws:s3/bucket:Bucket"
        /\ OptionalResourceIff(c, Value(c.ret).versioning, c.versioning,
                               "aws:s3/bucketVersioning:BucketVersioning")
        /\ OptionalResourceIff(c, Value(c.ret).encryption, c.encryption,
                               "aws:s3/bucketServerSideEncryptionConfiguration:BucketServerSideEncryptionConfiguration")
        /\ OptionalResourceIff(c, Value(c.ret).public_access_block, c.public_access_block,
                               "aws:s3/bucketPublicAccessBlock:BucketPublicAccessBlock")
        /\ c.n_after - c.n_before
              = 1 + Asked(c.versioning) + Asked(c.encryption) + Asked(c.public_access_block)

\* a bucket encrypted but neither versioned nor blocked
C21_Witness ==
    \E c \in S3BucketCalls :
        /\ ~c.versioning /\ c.encryption /\ ~c.public_access_block
        /\ IsNone(Value(c.ret).versioning)
        /\ ~IsNone(Value(c.ret).encryption)
        /\ IsNone(Value(c.ret).public_access_block)
\* the tags of the bucket a call returned: None or Some(dict)
BucketTagsOf(call) == declared[Value(call.ret).bucket].tags

\* C22: create_s3_bucket does not mutate its tags argument, and the bucket's
\* tags hold every key and value of the input tags unchanged, special
\* characters included.
C22_TagsKeptAndNotMutated ==
    \A c \in S3BucketCalls :
        ~IsNone(c.tags) =>
            /\ heap[Value(c.tags)] = Value(c.given)
            /\ ~IsNone(BucketTagsOf(c))
            /\ \A k \in DOMAIN Value(c.given) :
                   /\ k \in DOMAIN Value(BucketTagsOf(c))
                   /\ Value(BucketTagsOf(c))[k] = Value(c.given)[k]

\* a bucket made with tags whose values have spaces, slashes and punctuation
C22_Witness ==
    \E c \in S3BucketCalls :
        /\ ~IsNone(c.tags)
        /\ "Description" \in DOMAIN Value(c.given)
        /\ heap[Value(c.tags)].Description = "This has spaces and punctuation!"
        /\ Value(BucketTagsOf(c)).Description = "This has spaces and punctuation!"
        /\ Value(BucketTagsOf(c)).Path = "/app/component"

\* C23: called with tags=None, create_s3_bucket declares the bucket with an
\* empty mapping of tags, not with None.
C23_NoTagsGivesEmptyMapping ==
    \A c \in S3BucketCalls :
        IsNone(c.tags) =>
            /\ ~IsNone(BucketTagsOf(c))
            /\ Value(BucketTagsOf(c)) = EmptyDict

\* a bucket made with tags=None
C23_Witness ==
    \E c \in S3BucketCalls :
        /\ IsNone(c.tags)
        /\ IsNone(c.given)
        /\ BucketTagsOf(c) = Some(EmptyDict)
EnsureCalls == { v \in Range(validations) : v.fn = "ensure_managed_by_tag" }

\* the tags of props are a mapping with the key ManagedBy
HasManagedBy(props) ==
    /\ "tags" \in DOMAIN props
    /\ props.tags.kind = "dict"
    /\ "ManagedBy" \in DOMAIN props.tags.dict

\* props has no tags, tags that are None, or a mapping (empty or not) that
\* lacks the key ManagedBy
LacksManagedBy(props) ==
    \/ "tags" \notin DOMAIN props
    \/ props.tags.kind = "NoneType"
    \/ props.tags.kind = "dict" /\ "ManagedBy" \notin DOMAIN props.tags.dict

\* C24: ensure_managed_by_tag returns None if and only if the resource's tags
\* are a mapping with the key "ManagedBy"; for missing, empty or None tags,
\* or tags without that key, it returns the message "Resource should include
\* a 'ManagedBy' tag to denote ownership."
C24_NoneIffManagedByPresent ==
    \A v \in EnsureCalls :
        /\ IsNone(v.ret) <=> HasManagedBy(v.props)
        /\ LacksManagedBy(v.props)
              => v.ret = Some("Resource should include a 'ManagedBy' tag to denote ownership.")

\* tags with an owner but no ManagedBy got the message, and tags with
\* ManagedBy got None
C24_Witness ==
    /\ \E v \in EnsureCalls :
           /\ "tags" \in DOMAIN v.props
           /\ v.props.tags = PyDict([Owner |-> "Team"])
           /\ v.ret = Some("Resource should include a 'ManagedBy' tag to denote ownership.")
    /\ \E v \in EnsureCalls :
           /\ "tags" \in DOMAIN v.props
           /\ v.props.tags = PyDict([ManagedBy |-> "Pulumi"])
           /\ IsNone(v.ret)
\* the places (statement, position) at which a call's statements hold action
PlacesOf(call, action) ==
    UNION { { <<i, j>> : j \in { k \in DOMAIN StatementsOf(call)[i].Action :
                                     StatementsOf(call)[i].Action[k] = action } }
            : i \in DOMAIN StatementsOf(call) }

\* C25: for a bucket and an access level other than list_only the tier's
\* actions are partitioned: every action is in exactly one returned
\* statement, actions with "Object" in the name only in the statement on
\* identifier + "/*", the others only in the statement on the identifier
\* itself, and no statement is returned for an empty part, so write_only
\* gives one statement, on the objects.
C25_ActionsPartitioned ==
    \A c \in S3Calls :
        LET call == synth[c]
        IN (Recognized(call) /\ call.access_level # "list_only")
            => /\ IsNone(call.raised)
               /\ \A a \in Range(TierActions(call)) :
                      /\ Cardinality(PlacesOf(call, a)) = 1
                      /\ \A place \in PlacesOf(call, a) :
                             StatementsOf(call)[place[1]].Resource
                                 = IF IsItemLevel(a) THEN call.arn \o "/*" ELSE call.arn
               /\ \A st \in Range(StatementsOf(call)) :
                      /\ st.Action # <<>>
                      /\ Range(st.Action) \subseteq Range(TierActions(call))
               /\ call.access_level = "write_only"
                      => /\ Len(StatementsOf(call)) = 1
                         /\ StatementsOf(call)[1].Resource = call.arn \o "/*"

\* write_only on a bucket gave the one statement on its objects
C25_Witness ==
    \E c \in S3Calls :
        /\ synth[c].access_level = "write_only"
        /\ StatementsOf(synth[c])
              = << [Effect |-> "Allow",
                    Action |-> <<"s3:PutObject", "s3:DeleteObject",
                                 "s3:DeleteObjectVersion", "s3:PutObjectAcl">>,
                    Resource |-> synth[c].arn \o "/*"] >>
\* the Lambda function an API was constructed with: the one its permission,
\* declared by the constructor, lets the API invoke
ConstructedWith(self) ==
    CHOOSE f \in LambdaFunctions : f.name = permissions[apis[self].lambda_permission].function

\* C26: every integration registered on a LambdaRestApi is a proxying
\* integration of the Lambda function given at construction: type AWS_PROXY,
\* integration method POST, uri the function's invoke ARN, and the rest API,
\* resource id and HTTP method of the method declared with it.
C26_IntegrationProxiesToConstructedLambda ==
    \A self \in DOMAIN apis :
        \A i \in Range(apis[self]._integrations) :
            /\ i \in DOMAIN integrations
            /\ i \in DOMAIN methods
            /\ integrations[i].type = "AWS_PROXY"
            /\ integrations[i].integration_http_method = "POST"
            /\ integrations[i].uri = InvokeArn(ConstructedWith(self).name)
            /\ integrations[i].rest_api = ResourceId(rest_apis[apis[self].rest_api].name)
            /\ integrations[i].rest_api = methods[i].rest_api
            /\ integrations[i].resource_id = methods[i].resource_id
            /\ integrations[i].http_method = methods[i].http_method
            /\ integrations[i].name = methods[i].name \o "-integration"

\* the API "web" with a GET route on "items", integrated with web-lambda
C26_Witness ==
    \E self \in DOMAIN apis :
        \E i \in Range(apis[self]._integrations) :
            /\ apis[self].name = "web"
            /\ methods[i].http_method = "GET"
            /\ methods[i].resource_id = "web-resource-items-id"
            /\ integrations[i].uri = InvokeArn("web-lambda")
            /\ integrations[i].integration_http_method = "POST"
EarlierS3BucketCalls == { c \in Range(calls) : c.fn = "src.common.s3.create_s3_bucket" }

\* a call declared a resource of the type
Applied(call, type) ==
    \E i \in (call.n_before + 1)..call.n_after : declared[i].type = type

\* C27: in the earlier create_s3_bucket (src/common/s3.py), for every
\* combination of the versioning, encryption and public_access flags, each
\* flag that is True has its own configuration applied to the bucket and each
\* flag that is False has not.
C27_EarlierFlagsApplyOwnConfiguration ==
    \A c \in EarlierS3BucketCalls :
        /\ c.versioning
              <=> Applied(c, "aws:s3/bucketVersioning:BucketVersioning")
        /\ c.encryption
              <=> Applied(c, "aws:s3/bucketServerSideEncryptionConfiguration:BucketServerSideEncryptionConfiguration")
        /\ c.public_access_block
              <=> Applied(c, "aws:s3/bucketPublicAccessBlock:BucketPublicAccessBlock")
\* the calls that reset the tracking
IsReset(call) == call.fn \in {"reset_tracking", "setup_pulumi_mocks"}

\* the place in the log of the last reset before place n, 0 if there is none
LastReset(n) ==
    IF \E i \in 1..(n - 1) : IsReset(mock_calls[i])
    THEN CHOOSE i \in 1..(n - 1) :
             /\ IsReset(mock_calls[i])
             /\ \A j \in (i + 1)..(n - 1) : ~IsReset(mock_calls[j])
    ELSE 0

\* the number of new_resource calls of a type between the last reset before
\* place n and place n
RegisteredSinceReset(n, type) ==
    Cardinality({ i \in (LastReset(n) + 1)..(n - 1) :
                      /\ mock_calls[i].fn = "new_resource"
                      /\ mock_calls[i].typ = type })

\* C28: after any sequence of new_resource and reset_tracking calls,
\* count_resources_of_type(t) is the number of new_resource calls of type t
\* since the last reset_tracking (zero right after setup_pulumi_mocks), and
\* every new_resource call returns the id name + "-id" with outputs that
\* hold every key of the inputs.
C28_MocksCountSinceResetAndEchoInputs ==
    /\ \A t \in CountedTypes :
           count_resources_of_type(_test_mocks, t)
               = RegisteredSinceReset(Len(mock_calls) + 1, t)
    /\ \A n \in DOMAIN mock_calls :
           /\ mock_calls[n].fn = "count_resources_of_type"
                  => mock_calls[n].ret = RegisteredSinceReset(n, mock_calls[n].typ)
           /\ mock_calls[n].fn = "new_resource"
                  => /\ mock_calls[n].ret.id = mock_calls[n].name \o "-id"
                     /\ DOMAIN mock_calls[n].inputs \subseteq DOMAIN mock_calls[n].ret.outputs
    /\ (mock_calls # <<>> /\ mock_calls[Len(mock_calls)].fn = "setup_pulumi_mocks")
           => \A t \in CountedTypes : count_resources_of_type(_test_mocks, t) = 0

\* two buckets registered after a reset and then counted
C28_Witness ==
    /\ Len(mock_calls) = 3
    /\ mock_calls[1].fn = "new_resource"
    /\ mock_calls[1].typ = "aws:s3/bucket:Bucket"
    /\ mock_calls[1].ret.id = "app1-bucket-id"
    /\ "forceDestroy" \in DOMAIN mock_calls[1].ret.outputs
    /\ mock_calls[2].fn = "new_resource"
    /\ mock_calls[2].typ = "aws:s3/bucket:Bucket"
    /\ mock_calls[3].fn = "count_resources_of_type"
    /\ mock_calls[3].typ = "aws:s3/bucket:Bucket"
    /\ mock_calls[3].ret = 2
\* the number of times a lookup answered over all accessor calls so far
TimesAnswered(lookup) ==
    Cardinality({ n \in DOMAIN accesses :
                      \E i \in DOMAIN accesses[n].lookups : accesses[n].lookups[i] = lookup })

\* the three fields are all unset or all set
AllOrNothing(c) ==
    \/ IsNone(c._stack_name) /\ IsNone(c._current) /\ IsNone(c._region)
    \/ ~IsNone(c._stack_name) /\ ~IsNone(c._current) /\ ~IsNone(c._region)

\* C29: after any sequence of accessor calls on the PulumiConfig singleton
\* the stack, caller-identity and region lookups have each been performed at
\* most once, _stack_name, _current and _region are all unset or all set,
\* and no accessor's not-None assertion has failed.
C29_LookupsOnceAndAllOrNothing ==
    /\ \A lookup \in {"get_stack", "get_caller_identity", "get_region"} :
           TimesAnswered(lookup) <= 1
    /\ AllOrNothing(config)
    /\ \A n \in DOMAIN accesses : accesses[n].outcome # "AssertionError"

\* the same when no lookup has raised: every call returned
C29_HoldsWhileLookupsAnswer ==
    (\A n \in DOMAIN accesses : accesses[n].outcome # "raises")
        => /\ C29_LookupsOnceAndAllOrNothing
           /\ \A n \in DOMAIN accesses : accesses[n].outcome = "returns"
\* the routes registered so far are pairwise distinct
RoutesDistinct ==
    \A i, j \in DOMAIN routes : i # j => routes[i] # routes[j]

\* the names of a list of declared objects are pairwise distinct
NamesDistinct(objects) ==
    \A i, j \in DOMAIN objects : i # j => objects[i].name # objects[j].name

\* C30: when the add_root_route and add_proxy_route calls made on one
\* LambdaRestApi register distinct (path, HTTP method) routes, the logical
\* names of the declared Resource, Method and Integration objects are
\* pairwise distinct.
C30_DistinctRoutesHaveDistinctNames ==
    (Len(apis) = 1 /\ RoutesDistinct)
        => /\ NamesDistinct(resources)
           /\ NamesDistinct(methods)
           /\ NamesDistinct(integrations)
====
